---- MODULE Spec2Model ----
(***************************************************************************)
(* Model of the Cailianpress -> Feishu pipeline (src/cls_to_feishu.py):    *)
(* CailianpressAPI.fetch_telegrams, TelegramFileManager, FeishuNotifier    *)
(* and main.  Strings that the source writes in Chinese are written here   *)
(* in ASCII; each such definition quotes the meaning of the original.      *)
(***************************************************************************)
EXTENDS Integers, Sequences, FiniteSets, TLC

VARIABLES
    vendor,      \* the raw items the vendor feed can return (roll_data entries)
    ticks,       \* the wall-clock instants (Unix seconds) at which runs happen
    tick,        \* index into ticks: ticks[tick] is the current wall-clock time
    files,       \* archive directory: day number |-> list of lines of cls_<day>.md
    mtime,       \* st_mtime of every archive file
    pc,          \* position of the running process: idle, fetch, sleep, returned
    attempt,     \* loop variable of fetch_telegrams
    requests,    \* HTTP GETs issued by the current fetch_telegrams call
    sleeps,      \* time.sleep calls made by the current fetch_telegrams call
    response,    \* the response to the latest HTTP GET of the current call
    fetched,     \* fetch_telegrams' return value (list of processed items)
    outcome,     \* how the last fetch_telegrams call ended: none, list, raised
    faults,      \* which operations can fail in this environment: "read", "write", "post"
    webhook,     \* whether CONFIG["FEISHU_WEBHOOK_URL"] is set
    rollups,     \* the 5days directory: file name |-> [mtime, doc]
    steps,       \* the steps the current run of main has completed, in order
    procs,       \* the locals of the invocations of main that run side by side
    last,        \* record of the last archive and notify steps of main
    sweep,       \* record of the last cleanup_old_files call
    call         \* a call of a component made on its own: what it is given and what it gives

vars == <<vendor, ticks, tick, files, mtime, pc, attempt, requests,
          sleeps, response, fetched, outcome, faults, webhook, rollups, steps,
          procs, last, sweep, call>>

---------------------------------------------------------------------------
(* Bounds of the model *)

MaxFileItems == 3
MaxBatch == 2
MaxKeep == 3
MaxSweepFiles == 4
MaxMtime == 3
MaxPermFiles == 3
MaxCallItems == 2
MaxRollups == 2
NumDays == 2

(* Program constants *)

RETRY_ATTEMPTS == 3
KEEP_FILES_COUNT == 7
BEIJING_UTC_OFFSET == 28800
SECONDS_PER_DAY == 86400

---------------------------------------------------------------------------
(* Generic helpers *)

Range(s) == {s[i] : i \in 1..Len(s)}

Min(a, b) == IF a < b THEN a ELSE b

\* An optional value: <<>> is Python's None / a missing key, <<v>> is v.
None == <<>>
Some(v) == <<v>>

\* All sequences over S of length at most n.
SeqsUpTo(S, n) == UNION {[1..k -> S] : k \in 0..n}

\* All orderings (as sequences without repetition) of the finite set S.
Perms(S) == {p \in [1..Cardinality(S) -> S] : \A i, j \in 1..Cardinality(S) : p[i] = p[j] => i = j}

\* The elements of a finite set of integers in ascending order.
RECURSIVE Ascending(_)
Ascending(S) ==
    IF S = {} THEN <<>>
    ELSE LET m == CHOOSE x \in S : \A y \in S : x <= y
         IN  <<m>> \o Ascending(S \ {m})

Reverse(s) == [i \in 1..Len(s) |-> s[Len(s) + 1 - i]]

\* First position of x in s (list.index, 1-based); 0 when absent (ValueError).
RECURSIVE IndexFrom(_, _, _)
IndexFrom(s, x, i) ==
    IF i > Len(s) THEN 0
    ELSE IF s[i] = x THEN i
    ELSE IndexFrom(s, x, i + 1)

IndexOf(s, x) == IndexFrom(s, x, 1)

\* list.sort(key=..., reverse=True) on a list of <<key, element>> pairs:
\* stable, descending by key.  The pair x is placed after every pair whose
\* key is >= its own, so equal keys keep their original order.
RECURSIVE InsertDesc(_, _)
InsertDesc(sorted, x) ==
    IF sorted = <<>> THEN <<x>>
    ELSE IF Head(sorted)[1] >= x[1]
         THEN <<Head(sorted)>> \o InsertDesc(Tail(sorted), x)
         ELSE <<x>> \o sorted

RECURSIVE SortDescFrom(_, _, _)
SortDescFrom(s, i, acc) ==
    IF i > Len(s) THEN acc
    ELSE SortDescFrom(s, i + 1, InsertDesc(acc, s[i]))

SortDesc(s) == SortDescFrom(s, 1, <<>>)

\* list.sort(key=...) on a list of <<key, element>> pairs: stable, ascending.
RECURSIVE InsertAsc(_, _)
InsertAsc(sorted, x) ==
    IF sorted = <<>> THEN <<x>>
    ELSE IF Head(sorted)[1] <= x[1]
         THEN <<Head(sorted)>> \o InsertAsc(Tail(sorted), x)
         ELSE <<x>> \o sorted

RECURSIVE SortAscFrom(_, _, _)
SortAscFrom(s, i, acc) ==
    IF i > Len(s) THEN acc
    ELSE SortAscFrom(s, i + 1, InsertAsc(acc, s[i]))

SortAsc(s) == SortAscFrom(s, 1, <<>>)

---------------------------------------------------------------------------
(* TimeHelper *)

\* Civil date (Asia/Shanghai, UTC+8 without DST) of a Unix timestamp, as the
\* number of the day; strftime("%Y-%m-%d") renders that day one-to-one.
DateOf(ts) == (ts + BEIJING_UTC_OFFSET) \div SECONDS_PER_DAY

\* TimeHelper.timestamp_to_hhmm: <<hour, minute>> of the civil time.
timestamp_to_hhmm(ts) ==
    << ((ts + BEIJING_UTC_OFFSET) % SECONDS_PER_DAY) \div 3600,
       (((ts + BEIJING_UTC_OFFSET) % SECONDS_PER_DAY) % 3600) \div 60 >>

---------------------------------------------------------------------------
(* Strings *)

Digit == <<"0", "1", "2", "3", "4", "5", "6", "7", "8", "9">>

\* str(n) of a non-negative int: its decimal digits, one character each.
RECURSIVE Str(_)
Str(n) == IF n < 10 THEN <<Digit[n + 1]>> ELSE Str(n \div 10) \o <<Digit[(n % 10) + 1]>>

\* str(item.get("id")): the digits of a present id, "None" for a missing one.
PyStr(optId) == IF optId = None THEN <<"N", "o", "n", "e">> ELSE Str(optId[1])

\* The regular expression \d+ matches the whole of s.
IsDigits(s) == s # <<>> /\ \A i \in 1..Len(s) : s[i] \in Range(Digit)

\* CONFIG["RED_KEYWORDS"]: ten words of two characters each.  A text is the
\* sequence of its characters, and a Chinese character is written by its
\* transliteration: lihao, likong, zhongyao, tufa, jinji, guanzhu, tixing,
\* zhangting, dadie, tupo.
RED_KEYWORDS == {<<"li", "hao">>, <<"li", "kong">>, <<"zhong", "yao">>, <<"tu", "fa">>,
                 <<"jin", "ji">>, <<"guan", "zhu">>, <<"ti", "xing">>, <<"zhang", "ting">>,
                 <<"da", "die">>, <<"tu", "po">>}

\* k in text: the string k occurs in the string text.
Contains(text, k) ==
    \E i \in 1..(Len(text) - Len(k) + 1) : SubSeq(text, i, i + Len(k) - 1) = k

DETAIL_URL == "https://www.cls.cn/detail/"

---------------------------------------------------------------------------
(* CailianpressAPI.fetch_telegrams: one raw item -> one processed item *)

\* A ctime that int() cannot parse: a text of several characters (a number
\* is Some(n), of length one).
UNPARSABLE == <<"n", "/", "a">>

\* `if timestamp:` followed by int(timestamp) under try: a missing or zero
\* ctime, and one on which int() raises ValueError, leave ts_int = None.
ParseCtime(ctime) ==
    IF Len(ctime) # 1 THEN None
    ELSE IF ctime[1] = 0 THEN None
    ELSE ctime

Truthy(opt) == opt # None /\ opt[1] # 0

ProcessRaw(item) ==
    LET item_id == PyStr(item.id)
        title == item.title
        content == IF item.brief # <<>> THEN item.brief ELSE title
        ts_int == ParseCtime(item.ctime)
    IN  [id |-> item_id,
         content |-> content,
         time |-> IF ts_int = None THEN <<>> ELSE timestamp_to_hhmm(ts_int[1]),
         url |-> IF item_id # <<>> THEN <<DETAIL_URL>> \o item_id ELSE <<>>,
         is_red |-> \E k \in RED_KEYWORDS : Contains(title \o content, k),
         timestamp_raw |-> ts_int]

\* The loop over raw_telegrams: advertisements are skipped.
ProcessAll(raws) ==
    LET kept == SelectSeq(raws, LAMBDA r : ~r.is_ad)
    IN  [i \in 1..Len(kept) |-> ProcessRaw(kept[i])]

\* What one pass of the retry loop does with a response:
\*   "return"  the processed list is returned;
\*   "failed"  the attempt is over (exception caught, or the condition of
\*             line 98 is false) and the loop goes on to its sleep test;
\*   "raised"  an exception that no except clause of the loop catches.
HandleResponse(resp) ==
    IF resp.net = "error" THEN [t |-> "failed", list |-> <<>>]
    ELSE IF resp.status >= 400 THEN [t |-> "failed", list |-> <<>>]
    ELSE IF ~resp.is_json THEN [t |-> "failed", list |-> <<>>]
    ELSE IF ~resp.body.is_object THEN [t |-> "raised", list |-> <<>>]
    ELSE IF resp.body.error # Some(0) THEN [t |-> "failed", list |-> <<>>]
    ELSE IF ~resp.body.data.truthy THEN [t |-> "failed", list |-> <<>>]
    ELSE IF ~resp.body.data.is_object THEN [t |-> "raised", list |-> <<>>]
    ELSE IF resp.body.data.roll_data = <<>> THEN [t |-> "failed", list |-> <<>>]
    ELSE [t |-> "return", list |-> ProcessAll(resp.body.data.roll_data)]

---------------------------------------------------------------------------
(* TelegramFileManager: the archive files *)

\* A file is the list of its lines ("\n".join on writing, split('\n') on
\* reading; no rendered line holds a newline).  A line is either literal
\* text or a rendered item.
TextLine(s) == [kind |-> "text", text |-> s, time |-> <<>>, content |-> <<>>,
                url |-> <<>>, bold |-> FALSE]

BLANK == TextLine("")
RED_TITLE == TextLine("**(red) important telegrams**")
NORMAL_TITLE == TextLine("**(news) general telegrams**")
FILE_SEPARATOR == TextLine("-------------------")

\* line.strip() == ""
IsBlank(line) == line.kind = "text" /\ line.text = ""

IsItem(line) == line.kind = "item"

\* The template of a file that does not exist yet (line 200).
Template == <<RED_TITLE, BLANK, FILE_SEPARATOR, BLANK, NORMAL_TITLE, BLANK>>

\* The rendered line "  - [time] [content](url)", "**...**" when is_red,
\* without brackets and link when url is empty; then one empty line.
format_telegram_lines_for_insertion(t) ==
    << [kind |-> "item", text |-> "", time |-> t.time, content |-> t.content,
        url |-> t.url, bold |-> t.is_red],
       BLANK >>

\* The id that re.findall(r'\(https://www.cls.cn/detail/(\d+)\)') finds in a
\* line: only a rendered link whose id part is all digits matches.
LinkedIds(line) ==
    IF IsItem(line) /\ line.url # <<>> /\ line.url[1] = DETAIL_URL /\ IsDigits(Tail(line.url))
    THEN {Tail(line.url)}
    ELSE {}

get_existing_ids_for_date(fs, date) ==
    IF date \notin DOMAIN fs THEN {}
    ELSE UNION {LinkedIds(fs[date][i]) : i \in 1..Len(fs[date])}

\* Concatenation of the rendered lines of a list of items.
RECURSIVE LinesOf(_)
LinesOf(items) ==
    IF items = <<>> THEN <<>>
    ELSE format_telegram_lines_for_insertion(Head(items)) \o LinesOf(Tail(items))

\* InsertBelow assigning the new lines to the slice they are as long as:
\* the lines that stood below the header are overwritten.
InsertBelow_overwriting(lines, p, new_lines) ==
    LET spaced == IF p < Len(lines) /\ ~IsBlank(lines[p + 1])
                  THEN SubSeq(lines, 1, p) \o <<BLANK>> \o SubSeq(lines, p + 1, Len(lines))
                  ELSE lines
        cut == Min(p + 1, Len(spaced))
    IN  SubSeq(spaced, 1, cut) \o new_lines
          \o SubSeq(spaced, cut + Len(new_lines) + 1, Len(spaced))

\* The try branch of lines 204-209 / 216-220: insert new_lines below the
\* header found at position p (1-based), after one empty line.
InsertBelow(lines, p, new_lines) ==
    LET spaced == IF p < Len(lines) /\ ~IsBlank(lines[p + 1])
                  THEN SubSeq(lines, 1, p) \o <<BLANK>> \o SubSeq(lines, p + 1, Len(lines))
                  ELSE lines
        cut == Min(p + 1, Len(spaced))
    IN  SubSeq(spaced, 1, cut) \o new_lines \o SubSeq(spaced, cut + 1, Len(spaced))

\* Lines 203-212: the general section.  saved is what the branch does to
\* saved_any_new.
InsertNormal(lines, new_normal_lines) ==
    IF new_normal_lines = <<>> THEN [lines |-> lines, saved |-> FALSE]
    ELSE IF IndexOf(lines, NORMAL_TITLE) # 0
         THEN [lines |-> InsertBelow(lines, IndexOf(lines, NORMAL_TITLE), new_normal_lines),
               saved |-> TRUE]
         ELSE [lines |-> lines \o <<BLANK, FILE_SEPARATOR, BLANK, NORMAL_TITLE, BLANK>>
                               \o new_normal_lines,
               saved |-> FALSE]

\* InsertRed looking for the title of the general section.
InsertRed_belowGeneral(lines, new_red_lines) ==
    IF new_red_lines = <<>> THEN [lines |-> lines, saved |-> FALSE]
    ELSE IF IndexOf(lines, NORMAL_TITLE) # 0
         THEN [lines |-> InsertBelow(lines, IndexOf(lines, NORMAL_TITLE), new_red_lines),
               saved |-> TRUE]
         ELSE [lines |-> <<RED_TITLE, BLANK>> \o new_red_lines \o lines,
               saved |-> FALSE]

\* Lines 215-224: the important section.
InsertRed(lines, new_red_lines) ==
    IF new_red_lines = <<>> THEN [lines |-> lines, saved |-> FALSE]
    ELSE IF IndexOf(lines, RED_TITLE) # 0
         THEN [lines |-> InsertBelow(lines, IndexOf(lines, RED_TITLE), new_red_lines),
               saved |-> TRUE]
         ELSE [lines |-> <<RED_TITLE, BLANK>> \o new_red_lines \o lines,
               saved |-> FALSE]

\* The new content of the file of one date (lines 187-224).
MergeDay(fs, date, items_for_day) ==
    LET new_red == SelectSeq(items_for_day, LAMBDA t : t.is_red)
        new_normal == SelectSeq(items_for_day, LAMBDA t : ~t.is_red)
        lines == IF date \in DOMAIN fs THEN fs[date] ELSE Template
        n == InsertNormal(lines, LinesOf(new_normal))
        r == InsertRed(n.lines, LinesOf(new_red))
    IN  [lines |-> r.lines, saved |-> n.saved \/ r.saved]

\* new_telegrams.sort(key=timestamp_raw, reverse=True) (line 174).
SortNewestFirst(telegrams) ==
    LET keyed == [i \in 1..Len(telegrams) |->
                    <<IF telegrams[i].timestamp_raw = None THEN 0
                      ELSE telegrams[i].timestamp_raw[1], telegrams[i]>>]
        sorted == SortDesc(keyed)
    IN  [i \in 1..Len(sorted) |-> sorted[i][2]]

\* GroupDate with the date taken in UTC instead of Asia/Shanghai.
GroupDate_utc(t) == t.timestamp_raw[1] \div SECONDS_PER_DAY

\* The date under which append_new_telegrams files an item (lines 180-181).
GroupDate(t) == DateOf(t.timestamp_raw[1])

\* Keys of telegrams_by_date in insertion order (lines 177-183).
RECURSIVE GroupDates(_, _)
GroupDates(telegrams, seen) ==
    IF telegrams = <<>> THEN seen
    ELSE IF ~Truthy(Head(telegrams).timestamp_raw) THEN GroupDates(Tail(telegrams), seen)
    ELSE IF GroupDate(Head(telegrams)) \in Range(seen) THEN GroupDates(Tail(telegrams), seen)
    ELSE GroupDates(Tail(telegrams), Append(seen, GroupDate(Head(telegrams))))

\* Comparing the key None with another key raises TypeError: a sort over
\* two or more items of which one has timestamp_raw None (dict.get returns
\* the None that is stored, not the default).
SortRaises(telegrams) ==
    Len(telegrams) >= 2 /\ \E i \in 1..Len(telegrams) : telegrams[i].timestamp_raw = None

\* The loop of lines 186-231 from group k on.  st = [files, mtime, saved,
\* written, failed, raised]; rfail is the set of dates whose read_text raises
\* (line 198, outside any try: the exception leaves the call), wfail the set
\* of dates whose write_text raises (the file is left as it was); the writes
\* of one call happen at time now.
RECURSIVE WriteGroups(_, _, _, _, _, _, _)
WriteGroups(st, sorted, dates, k, now, rfail, wfail) ==
    IF k > Len(dates) THEN st
    ELSE LET date == dates[k]
             items_for_day == SelectSeq(sorted, LAMBDA t : Truthy(t.timestamp_raw) /\ GroupDate(t) = date)
             m == MergeDay(st.files, date, items_for_day)
             ok == date \notin wfail
             dom == DOMAIN st.files \cup {date}
             st2 == [files |-> IF ok THEN [d \in dom |-> IF d = date THEN m.lines ELSE st.files[d]]
                               ELSE st.files,
                     mtime |-> IF ok THEN [d \in dom |-> IF d = date THEN now
                                                       ELSE st.mtime[d]]
                               ELSE st.mtime,
                     saved |-> st.saved \/ m.saved,
                     written |-> IF ok THEN st.written \cup {date} ELSE st.written,
                     failed |-> IF ok THEN st.failed ELSE st.failed \cup {date},
                     raised |-> FALSE]
         IN  IF date \in DOMAIN st.files /\ date \in rfail
             THEN [st EXCEPT !.raised = TRUE]
             ELSE WriteGroups(st2, sorted, dates, k + 1, now, rfail, wfail)

\* append_new_telegrams(new_telegrams): the files afterwards, the return
\* value (saved; none when raised), the dates written, and the list as the
\* in-place sort leaves it for the caller.
append_new_telegrams(fs, mt, new_telegrams, now, rfail, wfail) ==
    IF new_telegrams = <<>>
    THEN [files |-> fs, mtime |-> mt, saved |-> FALSE, written |-> {}, failed |-> {},
          raised |-> FALSE, list |-> new_telegrams]
    ELSE IF SortRaises(new_telegrams)
    THEN [files |-> fs, mtime |-> mt, saved |-> FALSE, written |-> {}, failed |-> {},
          raised |-> TRUE, list |-> new_telegrams]
    ELSE LET sorted == SortNewestFirst(new_telegrams)
             st == WriteGroups([files |-> fs, mtime |-> mt, saved |-> FALSE, written |-> {},
                                failed |-> {}, raised |-> FALSE],
                               sorted, GroupDates(sorted, <<>>), 1, now, rfail, wfail)
         IN  [files |-> st.files, mtime |-> st.mtime, saved |-> st.saved,
              written |-> st.written, failed |-> st.failed, raised |-> st.raised,
              list |-> sorted]

\* The orders in which output_dir.glob("cls_*.md") may list the files S: any
\* order for a small directory, the two name orders for a larger one.  The
\* order has no effect when cleanup_old_files returns at line 249, and one
\* order stands for all then.
GlobOrders(S) ==
    IF Cardinality(S) <= MaxPermFiles THEN Perms(S)
    ELSE {Ascending(S), Reverse(Ascending(S))}

GlobOrdersFor(S, keep_count) ==
    IF Cardinality(S) <= keep_count THEN {Ascending(S)} ELSE GlobOrders(S)

\* cleanup_old_files with the sort ascending: the oldest files are kept.
cleanup_old_files_ascending(fs, mt, order, keep_count, dfail) ==
    IF Len(order) <= keep_count
    THEN [files |-> fs, mtime |-> mt, deleted |-> {}]
    ELSE LET sorted == Reverse(SortDesc([i \in 1..Len(order) |-> <<mt[order[i]], order[i]>>]))
             files_to_delete == {sorted[i][2] : i \in (keep_count + 1)..Len(sorted)}
             gone == files_to_delete \ dfail
         IN  [files |-> [d \in DOMAIN fs \ gone |-> fs[d]],
              mtime |-> [d \in DOMAIN mt \ gone |-> mt[d]],
              deleted |-> gone]

\* The loop of lines 262-267 stopping at the first unlink that raises.
Unlinked_untilFailure(files_to_delete, dfail) ==
    {files_to_delete[i] : i \in {j \in 1..Len(files_to_delete) :
                                  \A h \in 1..j : files_to_delete[h] \notin dfail}}

\* Lines 262-267: every file of the list is unlinked in turn; an unlink
\* that raises is logged inside the loop, which goes on with the next file.
Unlinked(files_to_delete, dfail) == Range(files_to_delete) \ dfail

\* cleanup_old_files(keep_count).  order is the order in which glob lists
\* the files; dfail is the set of files whose unlink raises.  Every
\* exception is caught (lines 266, 271): the call returns.
cleanup_old_files(fs, mt, order, keep_count, dfail) ==
    IF Len(order) <= keep_count
    THEN [files |-> fs, mtime |-> mt, deleted |-> {}]
    ELSE LET sorted == SortDesc([i \in 1..Len(order) |-> <<mt[order[i]], order[i]>>])
             files_to_delete == [i \in 1..(Len(sorted) - keep_count) |-> sorted[keep_count + i][2]]
             gone == Unlinked(files_to_delete, dfail)
         IN  [files |-> [d \in DOMAIN fs \ gone |-> fs[d]],
              mtime |-> [d \in DOMAIN mt \ gone |-> mt[d]],
              deleted |-> gone]

---------------------------------------------------------------------------
(* FeishuNotifier *)

\* The same list sorted as line 173 sorts it: descending.
SortOldestFirst_newestFirst(telegrams) ==
    LET keyed == [i \in 1..Len(telegrams) |->
                    <<IF telegrams[i].timestamp_raw = None THEN 0
                      ELSE telegrams[i].timestamp_raw[1], telegrams[i]>>]
        sorted == SortDesc(keyed)
    IN  [i \in 1..Len(sorted) |-> sorted[i][2]]

\* new_telegrams.sort(key=timestamp_raw) (line 426): ascending.
SortOldestFirst(telegrams) ==
    LET keyed == [i \in 1..Len(telegrams) |->
                    <<IF telegrams[i].timestamp_raw = None THEN 0
                      ELSE telegrams[i].timestamp_raw[1], telegrams[i]>>]
        sorted == SortAsc(keyed)
    IN  [i \in 1..Len(sorted) |-> sorted[i][2]]

\* Lines 420-424: nothing is sent without a webhook address, nothing for an
\* empty list, whatever the address.
NothingToSend_emptyListOnly(webhook_url, new_telegrams) == new_telegrams = <<>>

NothingToSend(webhook_url, new_telegrams) == ~webhook_url \/ new_telegrams = <<>>

\* Line 432: requests.post either answers ("ok", or "status" for a status
\* other than 200) or raises a RequestException ("error").
RaisedByPost(post) == IF post = "error" THEN Some("RequestException") ELSE None

\* Line 435: except requests.exceptions.RequestException.
CaughtByNotifier_nothing(exc) == FALSE

CaughtByNotifier(exc) == exc = "RequestException"

\* send_notification(new_telegrams) with the webhook answering post:
\* whether a POST was made and how many, the items in the order of the
\* text, total_titles of the payload, and the list as the in-place sort
\* leaves it.  There is one call of requests.post and no loop around it.
send_notification(webhook_url, new_telegrams, post) ==
    IF NothingToSend(webhook_url, new_telegrams)
    THEN [posted |-> FALSE, text |-> <<>>, delivered |-> FALSE, raised |-> FALSE,
          list |-> new_telegrams, posts |-> 0, total_titles |-> 0]
    ELSE IF SortRaises(new_telegrams)
    THEN [posted |-> FALSE, text |-> <<>>, delivered |-> FALSE, raised |-> TRUE,
          list |-> new_telegrams, posts |-> 0, total_titles |-> 0]
    ELSE [posted |-> TRUE, text |-> SortOldestFirst(new_telegrams),
          delivered |-> post = "ok",
          raised |-> RaisedByPost(post) # None /\ ~CaughtByNotifier(RaisedByPost(post)[1]),
          list |-> SortOldestFirst(new_telegrams),
          posts |-> 1, total_titles |-> Len(new_telegrams)]

---------------------------------------------------------------------------
(* FiveDaysSummaryManager: the rollup document of the last five days *)

\* Lines of the document that are not copied from an archive file.  The
\* rendering of a date, of an instant and of a count is its decimal number.
DocLine(kind, content) == [kind |-> kind, text |-> "", time |-> <<>>, content |-> content,
                           url |-> <<>>, bold |-> FALSE]

DateHeading(date) == DocLine("heading", Str(date))

RED_SUBTITLE == TextLine("### (red) important telegrams")
NORMAL_SUBTITLE == TextLine("### (news) general telegrams")
NO_DATA_LINE == TextLine("*no telegram data for this date*")
READ_ERROR_LINE == TextLine("*error while reading the data of this date*")
NO_FILE_LINE == TextLine("*the file of this date does not exist*")

\* line.strip().startswith("**") and the word "telegram" in line: of the
\* lines the archive holds, the two section titles.
IsTitleLike(line) == line \in {RED_TITLE, NORMAL_TITLE}

\* while section_lines and not section_lines[-1].strip(): pop()
RECURSIVE StripTrailingBlanks(_)
StripTrailingBlanks(lines) ==
    IF lines # <<>> /\ IsBlank(lines[Len(lines)])
    THEN StripTrailingBlanks(SubSeq(lines, 1, Len(lines) - 1))
    ELSE lines

\* The loop of _extract_section from line i on.
RECURSIVE ExtractFrom(_, _, _, _, _)
ExtractFrom(lines, section_title, i, in_section, section_lines) ==
    IF i > Len(lines) THEN section_lines
    ELSE IF lines[i] = section_title
         THEN ExtractFrom(lines, section_title, i + 1, TRUE, section_lines)
    ELSE IF in_section /\ IsTitleLike(lines[i]) THEN section_lines
    ELSE IF in_section /\ lines[i] = FILE_SEPARATOR THEN section_lines
    ELSE IF in_section
         THEN ExtractFrom(lines, section_title, i + 1, TRUE, Append(section_lines, lines[i]))
    ELSE ExtractFrom(lines, section_title, i + 1, FALSE, section_lines)

extract_section(lines, section_title) ==
    StripTrailingBlanks(ExtractFrom(lines, section_title, 1, FALSE, <<>>))

\* len([line for line in section if line.strip().startswith("- ")])
CountItems(section) == Cardinality({i \in 1..Len(section) : IsItem(section[i])})

\* FiveDays listing four dates only.
FiveDays_four(now) == [day_offset \in 1..4 |-> DateOf(now) - (day_offset - 1)]

\* The dates of the loop `for day_offset in range(5)`, newest first.
FiveDays(now) == [day_offset \in 1..5 |-> DateOf(now) - (day_offset - 1)]

\* ReadForSummary with the read outside the try block.
ReadForSummary_unguarded(fs, date, rfail) ==
    IF date \notin DOMAIN fs THEN [t |-> "absent", lines |-> <<>>]
    ELSE IF date \in rfail THEN [t |-> "raised", lines |-> <<>>]
    ELSE [t |-> "ok", lines |-> fs[date]]

\* Lines 304-306 and 329-331: the file of a date as the rollup reads it;
\* rfail is the set of dates whose read_text raises.
ReadForSummary(fs, date, rfail) ==
    IF date \notin DOMAIN fs THEN [t |-> "absent", lines |-> <<>>]
    ELSE IF date \in rfail THEN [t |-> "error", lines |-> <<>>]
    ELSE [t |-> "ok", lines |-> fs[date]]

\* Lines 301-339: the block of one date, and the items it counts.
DayBlock(fs, date, rfail) ==
    LET r == ReadForSummary(fs, date, rfail)
        red_section == extract_section(r.lines, RED_TITLE)
        normal_section == extract_section(r.lines, NORMAL_TITLE)
        red_part == IF red_section # <<>>
                    THEN <<RED_SUBTITLE, BLANK>> \o red_section \o <<BLANK>> ELSE <<>>
        normal_part == IF normal_section # <<>>
                       THEN <<NORMAL_SUBTITLE, BLANK>> \o normal_section \o <<BLANK>> ELSE <<>>
        body == IF r.t = "absent" THEN <<NO_FILE_LINE, BLANK>>
                ELSE IF r.t = "error" THEN <<READ_ERROR_LINE, BLANK>>
                ELSE IF red_section = <<>> /\ normal_section = <<>> THEN <<NO_DATA_LINE, BLANK>>
                ELSE red_part \o normal_part
    IN  [lines |-> <<DateHeading(date), BLANK>> \o body \o <<FILE_SEPARATOR, BLANK>>,
         count |-> IF r.t = "ok" THEN CountItems(red_section) + CountItems(normal_section) ELSE 0,
         raised |-> r.t = "raised"]

RECURSIVE DayBlocks(_, _, _, _)
DayBlocks(fs, dates, k, rfail) ==
    IF k > Len(dates) THEN [lines |-> <<>>, count |-> 0, raised |-> FALSE]
    ELSE LET b == DayBlock(fs, dates[k], rfail)
             rest == DayBlocks(fs, dates, k + 1, rfail)
         IN  [lines |-> b.lines \o rest.lines, count |-> b.count + rest.count,
              raised |-> b.raised \/ rest.raised]

\* Lines 284-348: summary_lines.
SummaryLines(fs, now, rfail) ==
    LET days == DayBlocks(fs, FiveDays(now), 1, rfail)
    IN  [lines |-> << TextLine("# telegrams - last 5 days"), BLANK,
                      DocLine("generated", Str(now)),
                      DocLine("range", Str(DateOf(now) - 4) \o <<"-">> \o Str(DateOf(now))),
                      BLANK, FILE_SEPARATOR, BLANK >>
                   \o days.lines
                   \o << TextLine("## statistics"), BLANK,
                         DocLine("total", Str(days.count)),
                         TextLine("- source"), TextLine("- range: last 5 days"), BLANK >>,
         raised |-> days.raised]

\* cleanup_old_summary_files with the sort ascending: the oldest is kept.
cleanup_old_summary_files_ascending(rs, order, dfail) ==
    IF Len(order) <= 1 THEN rs
    ELSE LET sorted == SortAsc([i \in 1..Len(order) |-> <<rs[order[i]].mtime, order[i]>>])
             files_to_delete == {sorted[i][2] : i \in 2..Len(sorted)}
             gone == files_to_delete \ dfail
         IN  [f \in DOMAIN rs \ gone |-> rs[f]]

\* _cleanup_old_summary_files(keep_count=1) over the rollup directory rs
\* (file name |-> [mtime, doc]); order is the order in which glob lists the
\* files, dfail the set of files whose unlink raises.
cleanup_old_summary_files(rs, order, dfail) ==
    IF Len(order) <= 1 THEN rs
    ELSE LET sorted == SortDesc([i \in 1..Len(order) |-> <<rs[order[i]].mtime, order[i]>>])
             files_to_delete == {sorted[i][2] : i \in 2..Len(sorted)}
             gone == files_to_delete \ dfail
         IN  [f \in DOMAIN rs \ gone |-> rs[f]]

\* The name of the rollup file: the instant to the second (line 352).
SummaryName(now) == now

\* generate_five_days_summary at the instant now: the rollup directory
\* afterwards.  wfail: write_text raises; order: an order of the names other
\* than the new one, the new name being listed at position pos.
generate_five_days_summary(fs, rs, now, rfail, wfail, order, pos, dfail) ==
    LET s == SummaryLines(fs, now, rfail)
        name == SummaryName(now)
        written == [f \in DOMAIN rs \cup {name} |->
                      IF f = name THEN [mtime |-> now, doc |-> s.lines] ELSE rs[f]]
        listing == SubSeq(order, 1, pos - 1) \o <<name>> \o SubSeq(order, pos, Len(order))
    IN  IF s.raised THEN [rollups |-> rs, wrote |-> FALSE, raised |-> TRUE]
        ELSE IF wfail THEN [rollups |-> rs, wrote |-> FALSE, raised |-> FALSE]
        ELSE [rollups |-> cleanup_old_summary_files(written, listing, dfail),
              wrote |-> TRUE, raised |-> FALSE]

---------------------------------------------------------------------------
(* The environment: the vendor's feed and the instants of the runs *)

Raw(id, title, brief, ctime, is_ad) ==
    [id |-> id, title |-> title, brief |-> brief, ctime |-> ctime, is_ad |-> is_ad]

\* An entry of the feed: the raw item and the span of time during which
\* the vendor lists it.
Listed(raw, from, until) == [raw |-> raw, from |-> from, until |-> until]

\* Two consecutive civil days.  Day 19676 (2023-11-15 in Shanghai) holds an
\* important item at 06:13, a general one at 06:15 and a general one at
\* 23:58; the next day holds an important item at 00:05.  Runs happen at
\* 06:16 and 23:59 of the first day and at 00:06 of the second.
DayFeed ==
    [vendor |-> { Listed(Raw(Some(1), <<"li", "hao", "A">>, <<>>, Some(1700000000), FALSE), 1700000000, 1700064360),
                  Listed(Raw(Some(2), <<"B">>, <<"plain">>, Some(1700000100), FALSE), 1700000100, 1700064360),
                  Listed(Raw(Some(3), <<"C">>, <<>>, Some(1700063880), FALSE), 1700063880, 1700064360),
                  Listed(Raw(Some(4), <<"tu", "fa", "D">>, <<>>, Some(1700064300), FALSE), 1700064300, 1700064360) },
     ticks |-> <<1700000200, 1700063940, 1700064360>>,
     files |-> <<>>,
     mtime |-> <<>>]

\* The instant of the daily run (06:16) and of the daily item (06:13) of the
\* d-th day of a long period.
DailyRun(d) == 1700000200 + SECONDS_PER_DAY * (d - 1)

DailyItem(d) == Raw(Some(10 + d), <<"N">>, <<>>, Some(1700000000 + SECONDS_PER_DAY * (d - 1)), FALSE)

\* The archive after one run a day, each filing that day's item, over the
\* first n days.
RECURSIVE ArchiveAfterDays(_)
ArchiveAfterDays(n) ==
    IF n = 0 THEN [files |-> <<>>, mtime |-> <<>>]
    ELSE LET before == ArchiveAfterDays(n - 1)
             a == append_new_telegrams(before.files, before.mtime,
                                       <<ProcessRaw(DailyItem(n))>>, DailyRun(n), {}, {})
         IN  [files |-> a.files, mtime |-> a.mtime]

\* A long period: KEEP_FILES_COUNT - 1 days have been archived; on each of
\* the NumDays following days the feed lists that day's item and, again, an
\* item of the first day with an id the archive has not seen.
LongFeed ==
    LET past == KEEP_FILES_COUNT - 1 IN
    [vendor |-> { Listed(DailyItem(past + d), DailyRun(past + d) - 100, DailyRun(past + d))
                  : d \in 1..NumDays }
                \cup
                { Listed(Raw(Some(5), <<"O">>, <<>>, Some(1700000100), FALSE),
                         DailyRun(past + 1), DailyRun(past + NumDays)) },
     ticks |-> [d \in 1..NumDays |-> DailyRun(past + d)],
     files |-> ArchiveAfterDays(past).files,
     mtime |-> ArchiveAfterDays(past).mtime]

\* A morning whose feed lists, besides an ordinary important item, an item
\* without ctime, one whose ctime is no number and one whose ctime is 0.
\* Runs happen at 06:16 and, when the feed lists nothing any more, at 06:17.
OddFeed ==
    [vendor |-> { Listed(Raw(Some(1), <<"li", "hao", "A">>, <<>>, Some(1700000000), FALSE), 1700000000, 1700000200),
                  Listed(Raw(Some(6), <<"E">>, <<>>, None, FALSE), 1700000000, 1700000200),
                  Listed(Raw(Some(7), <<"F">>, <<>>, UNPARSABLE, FALSE), 1700000000, 1700000200),
                  Listed(Raw(Some(8), <<"G">>, <<>>, Some(0), FALSE), 1700000000, 1700000200) },
     ticks |-> <<1700000200, 1700000260>>,
     files |-> <<>>,
     mtime |-> <<>>]

Now == ticks[tick]

\* The items the feed can list at the current instant.
Available == {v.raw : v \in {x \in vendor : x.from <= Now /\ Now <= x.until}}

\* The responses requests.get can meet.
Body(is_object, error, data) == [is_object |-> is_object, error |-> error, data |-> data]

Data(truthy, is_object, roll_data) ==
    [truthy |-> truthy, is_object |-> is_object, roll_data |-> roll_data]

NoData == Data(FALSE, FALSE, <<>>)

Response(net, status, is_json, body) ==
    [net |-> net, status |-> status, is_json |-> is_json, body |-> body]

Responses ==
    { Response("error", 0, FALSE, Body(FALSE, None, NoData)),        \* no connection, timeout
      Response("ok", 500, FALSE, Body(FALSE, None, NoData)),         \* HTTP error status
      Response("ok", 200, FALSE, Body(FALSE, None, NoData)),         \* body is not JSON
      Response("ok", 200, TRUE, Body(FALSE, None, NoData)),          \* JSON list, string, null
      Response("ok", 200, TRUE, Body(TRUE, None, NoData)),           \* object without "error"
      Response("ok", 200, TRUE, Body(TRUE, Some(1), NoData)),        \* error code of the vendor
      Response("ok", 200, TRUE, Body(TRUE, Some(0), NoData)),        \* no "data", or null, {} , []
      Response("ok", 200, TRUE, Body(TRUE, Some(0), Data(TRUE, FALSE, <<>>))), \* data is a list or string
      Response("ok", 200, TRUE, Body(TRUE, Some(0), Data(TRUE, TRUE, <<>>))) } \* no roll_data, or empty
    \cup
    { Response("ok", 200, TRUE, Body(TRUE, Some(0), Data(TRUE, TRUE, batch)))
      : batch \in SeqsUpTo(Available, MaxBatch) \ {<<>>} }

NoRun == [fetched |-> <<>>, notify_arg |-> <<>>, has_new |-> FALSE, write_failed |-> FALSE,
          raised |-> FALSE, rfail |-> {}, wfail |-> {}, posted |-> FALSE, text |-> <<>>,
          posts |-> 0, total_titles |-> 0, post |-> "none"]

NoResponse == Response("none", 0, FALSE, Body(FALSE, None, NoData))

\* No component has been called on its own.
NoCall == [op |-> "none"]

NoSweep == [keep_count |-> 0, before |-> <<>>, deleted |-> {}, dfail |-> {}]

\* The operations that can fail: read_text, write_text and the POST to the
\* webhook.
AllFaults == {"read", "write", "post"}

InitWith(sc, can_fail, hook) ==
    /\ vendor = sc.vendor
    /\ ticks = sc.ticks
    /\ tick = 1
    /\ files = sc.files
    /\ mtime = sc.mtime
    /\ pc = "idle"
    /\ attempt = 0
    /\ requests = 0
    /\ sleeps = 0
    /\ response = NoResponse
    /\ fetched = <<>>
    /\ outcome = "none"
    /\ faults = can_fail
    /\ webhook = hook
    /\ rollups = <<>>
    /\ steps = <<>>
    /\ procs = <<>>
    /\ last = NoRun
    /\ sweep = NoSweep
    /\ call = NoCall

Init == InitWith(DayFeed, {}, TRUE)

---------------------------------------------------------------------------
(* Actions *)

\* Time passes between two invocations of the script.
Tick ==
    /\ pc = "idle"
    /\ tick < Len(ticks)
    /\ tick' = tick + 1
    /\ UNCHANGED <<call, vendor, ticks, files, mtime, pc, attempt, requests, sleeps,
                   response, fetched, outcome, faults, webhook, rollups, steps, last, sweep, procs>>

\* The number of item lines of a file.
ItemCount(lines) == Cardinality({i \in 1..Len(lines) : IsItem(lines[i])})

\* main is invoked and calls fetch_telegrams (line 980).  No run is started
\* once a file has no room left for a whole batch.
StartMain ==
    /\ pc = "idle"
    /\ \A d \in DOMAIN files : ItemCount(files[d]) + MaxBatch <= MaxFileItems
    /\ pc' = "fetch"
    /\ attempt' = 0
    /\ requests' = 0
    /\ sleeps' = 0
    /\ response' = NoResponse
    /\ fetched' = <<>>
    /\ outcome' = "none"
    /\ UNCHANGED <<call, vendor, ticks, tick, files, mtime, faults, webhook, rollups, steps, last, sweep, procs>>

\* AfterFailure with the test of line 123 off by one: a sleep and one more
\* request follow the last attempt.
AfterFailure_offByOne(att) == IF att < RETRY_ATTEMPTS THEN "sleep" ELSE "exhausted"

\* Where the retry loop goes after a failed attempt (line 123 and the loop
\* header): to the sleep, or out of the loop.
AfterFailure(att) == IF att < RETRY_ATTEMPTS - 1 THEN "sleep" ELSE "exhausted"

\* One pass of the retry loop up to its sleep test (lines 93-123).
FetchAttempt ==
    /\ pc = "fetch"
    /\ \E resp \in Responses :
         LET h == HandleResponse(resp) IN
         /\ requests' = requests + 1
         /\ response' = resp
         /\ CASE h.t = "return" ->
                   /\ fetched' = h.list
                   /\ outcome' = "list"
                   /\ pc' = "returned"
                   /\ steps' = Append(steps, "fetch")
              [] h.t = "raised" ->
                   \* the exception leaves fetch_telegrams
                   /\ fetched' = <<>>
                   /\ outcome' = "raised"
                   /\ pc' = "returned"
                   /\ UNCHANGED steps
              [] h.t = "failed" /\ AfterFailure(attempt) = "sleep" ->
                   /\ pc' = "sleep"
                   /\ UNCHANGED <<fetched, outcome, steps>>
              [] h.t = "failed" /\ AfterFailure(attempt) = "exhausted" ->
                   \* line 124: return []
                   /\ fetched' = <<>>
                   /\ outcome' = "list"
                   /\ pc' = "returned"
                   /\ steps' = Append(steps, "fetch")
    /\ UNCHANGED <<call, vendor, ticks, tick, files, mtime, attempt, sleeps, faults, webhook,
                   rollups, last, sweep, procs>>

\* time.sleep(RETRY_DELAY) and the next iteration of the loop.
FetchSleep ==
    /\ pc = "sleep"
    /\ sleeps' = sleeps + 1
    /\ attempt' = attempt + 1
    /\ pc' = "fetch"
    /\ UNCHANGED <<call, vendor, ticks, tick, files, mtime, requests, response, fetched,
                   outcome, faults, webhook, rollups, steps, last, sweep, procs>>

\* The process is over: its locals are gone.
ProcessEnds ==
    /\ pc' = "idle"
    /\ attempt' = 0
    /\ requests' = 0
    /\ sleeps' = 0
    /\ response' = NoResponse
    /\ fetched' = <<>>
    /\ outcome' = "none"
    /\ steps' = <<>>

\* The exception of fetch_telegrams is caught nowhere in main: the run dies.
MainCrash ==
    /\ pc = "returned"
    /\ outcome = "raised"
    /\ ProcessEnds
    /\ UNCHANGED <<call, vendor, ticks, tick, files, mtime, faults, webhook, rollups, last, sweep, procs>>

\* Lines 981-983: nothing fetched, main returns.
MainNoData ==
    /\ pc = "returned"
    /\ outcome = "list"
    /\ fetched = <<>>
    /\ ProcessEnds
    /\ UNCHANGED <<call, vendor, ticks, tick, files, mtime, faults, webhook, rollups, last, sweep, procs>>

\* NewTelegrams without the test of timestamp_raw.
NewTelegrams_anyTime(fetched_telegrams, existing_ids) ==
    SelectSeq(fetched_telegrams, LAMBDA t : t.id # <<>> /\ t.id \notin existing_ids)

\* Line 989: the items main takes for new.
NewTelegrams(fetched_telegrams, existing_ids) ==
    SelectSeq(fetched_telegrams,
              LAMBDA t : t.id # <<>> /\ t.id \notin existing_ids /\ Truthy(t.timestamp_raw))

\* The date whose file main reads for the known ids (lines 986-987).
DedupDate(now) == DateOf(now)

\* The dates of the files a run at the current instant can write.
WritableDates == {DateOf(r.ctime[1]) : r \in {x \in Available : Truthy(ParseCtime(x.ctime))}}

\* PIPELINE with the rollup generated before the notification is sent.
PIPELINE_rollupFirst == <<"fetch", "archive", "rollup", "notify", "sweep">>

\* The calls of main in the order of its lines 980, 997, 1000, 1003, 1006.
PIPELINE == <<"fetch", "archive", "notify", "rollup", "sweep">>

\* The position of main once a step has returned.
PcAfter(step) ==
    CASE step = "fetch" -> "returned"
      [] step = "archive" -> "archived"
      [] step = "notify" -> "notified"
      [] step = "rollup" -> "summarized"
      [] step = "sweep" -> "idle"

\* main is about to make the call of a step: the step before it in the
\* order of main has returned.
ReadyFor(step) == pc = PcAfter(PIPELINE[IndexOf(PIPELINE, step) - 1])

\* The files whose read_text can raise, and the answers of the webhook, in
\* the environment of the run.
ReadFailures == IF "read" \in faults THEN {D \in SUBSET DOMAIN files : Cardinality(D) <= 1} ELSE {{}}

WriteFailures == IF "write" \in faults THEN SUBSET WritableDates ELSE {{}}

PostResults == IF "post" \in faults THEN {"ok", "status", "error"} ELSE {"ok"}

\* Lines 985-996 of main: the known ids of today's file, the filter and
\* append_new_telegrams.  An exception of read_text (line 142 or 198) is
\* caught nowhere: the run dies.
MainArchive ==
    /\ ReadyFor("archive")
    /\ outcome = "list"
    /\ fetched # <<>>
    /\ \E rfail \in ReadFailures, wfail \in WriteFailures :
         LET today == DedupDate(Now)
             existing_ids == get_existing_ids_for_date(files, today)
             new_telegrams == NewTelegrams(fetched, existing_ids)
             a == append_new_telegrams(files, mtime, new_telegrams, Now, rfail, wfail)
         IN  IF today \in DOMAIN files /\ today \in rfail
             THEN /\ ProcessEnds
                  /\ UNCHANGED <<files, mtime, last>>
             ELSE /\ files' = a.files
                  /\ mtime' = a.mtime
                  /\ last' = [fetched |-> fetched, notify_arg |-> a.list, has_new |-> a.saved,
                              write_failed |-> a.failed # {}, raised |-> a.raised,
                              rfail |-> rfail, wfail |-> wfail,
                              posted |-> FALSE, text |-> <<>>,
                              posts |-> 0, total_titles |-> 0, post |-> "none"]
                  /\ IF a.raised
                     THEN ProcessEnds
                     ELSE /\ pc' = PcAfter("archive")
                          /\ steps' = Append(steps, "archive")
                          /\ UNCHANGED <<attempt, requests, sleeps, response, fetched, outcome>>
    /\ UNCHANGED <<call, vendor, ticks, tick, faults, webhook, rollups, sweep, procs>>

\* Line 1000: send_notification(new_telegrams), the list object that
\* append_new_telegrams has sorted in place.
MainNotify ==
    /\ ReadyFor("notify")
    /\ \E post \in PostResults :
         LET n == send_notification(webhook, last.notify_arg, post)
         IN  /\ last' = [last EXCEPT !.posted = n.posted, !.text = n.text,
                                     !.posts = n.posts, !.total_titles = n.total_titles,
                                     !.post = IF n.posted THEN post ELSE "none",
                                     !.raised = n.raised]
             /\ IF n.raised
                THEN ProcessEnds
                ELSE /\ pc' = PcAfter("notify")
                     /\ steps' = Append(steps, "notify")
                     /\ UNCHANGED <<attempt, requests, sleeps, response, fetched, outcome>>
    /\ UNCHANGED <<call, vendor, ticks, tick, files, mtime, faults, webhook, rollups, sweep, procs>>

\* Line 1003: generate_five_days_summary().
MainSummary ==
    /\ ReadyFor("rollup")
    /\ \E rfail \in ReadFailures, wfail \in (IF "write" \in faults THEN BOOLEAN ELSE {FALSE}) :
         \E order \in GlobOrders(DOMAIN rollups \ {SummaryName(Now)}) :
           \E pos \in 1..(Len(order) + 1) :
             LET g == generate_five_days_summary(files, rollups, Now, rfail, wfail, order, pos, {})
             IN  rollups' = g.rollups
    /\ pc' = PcAfter("rollup")
    /\ steps' = Append(steps, "rollup")
    /\ UNCHANGED <<call, vendor, ticks, tick, files, mtime, attempt, requests, sleeps, response,
                   fetched, outcome, faults, webhook, last, sweep, procs>>

\* Line 1006: cleanup_old_files(keep_count=KEEP_FILES_COUNT), after which the
\* run is over (no Feishu bot is configured).
MainSweep ==
    /\ ReadyFor("sweep")
    /\ \E order \in GlobOrdersFor(DOMAIN files, KEEP_FILES_COUNT) :
         LET c == cleanup_old_files(files, mtime, order, KEEP_FILES_COUNT, {})
         IN  /\ files' = c.files
             /\ mtime' = c.mtime
             /\ sweep' = [keep_count |-> KEEP_FILES_COUNT, before |-> mtime,
                          deleted |-> c.deleted, dfail |-> {}]
    /\ ProcessEnds
    /\ UNCHANGED <<call, vendor, ticks, tick, faults, webhook, rollups, last, procs>>

Next ==
    \/ Tick
    \/ StartMain
    \/ FetchAttempt
    \/ FetchSleep
    \/ MainCrash
    \/ MainNoData
    \/ MainArchive
    \/ MainNotify
    \/ MainSummary
    \/ MainSweep

Spec == Init /\ [][Next]_vars

\* The pipeline run once a day over NumDays days.
InitLong == InitWith(LongFeed, {}, TRUE)

SpecLong == InitLong /\ [][Next]_vars

\* The pipeline over a feed that lists items without a usable ctime.
InitOdd == InitWith(OddFeed, {}, TRUE)

SpecOdd == InitOdd /\ [][Next]_vars

\* The same day when the POST to the webhook can fail, with and without a
\* configured webhook address (FEISHU_WEBHOOK_URL, line 27).
InitHook == \E hook \in BOOLEAN : InitWith(DayFeed, {"post"}, hook)

SpecHook == InitHook /\ [][Next]_vars

\* The pipeline in an environment in which writing a file can fail.
InitFaulty == InitWith(DayFeed, AllFaults, TRUE)

SpecFaulty == InitFaulty /\ [][Next]_vars

---------------------------------------------------------------------------
(* cleanup_old_files on its own, over any directory and any keep_count *)

SweepDates == 1..MaxSweepFiles

InitSweep ==
    /\ vendor = {}
    /\ ticks = <<0>>
    /\ tick = 1
    /\ \E S \in SUBSET SweepDates :
         /\ files = [d \in S |-> Template]
         /\ mtime \in [S -> 1..MaxMtime]
    /\ pc = "idle"
    /\ attempt = 0
    /\ requests = 0
    /\ sleeps = 0
    /\ response = NoResponse
    /\ fetched = <<>>
    /\ outcome = "none"
    /\ faults = {}
    /\ webhook = FALSE
    /\ rollups = <<>>
    /\ steps = <<>>
    /\ procs = <<>>
    /\ last = NoRun
    /\ sweep = NoSweep
    /\ call = NoCall

\* One sweep per behaviour: the directory a sweep leaves is itself one of the
\* initial directories.
Sweep ==
    /\ pc = "idle"
    /\ sweep = NoSweep
    /\ \E keep_count \in 0..MaxKeep, dfail \in {D \in SUBSET DOMAIN files : Cardinality(D) <= 1} :
         \E order \in GlobOrdersFor(DOMAIN files, keep_count) :
           LET c == cleanup_old_files(files, mtime, order, keep_count, dfail)
           IN  /\ files' = c.files
               /\ mtime' = c.mtime
               /\ sweep' = [keep_count |-> keep_count, before |-> mtime,
                            deleted |-> c.deleted, dfail |-> dfail]
    /\ UNCHANGED <<call, vendor, ticks, tick, pc, attempt, requests, sleeps, response,
                   fetched, outcome, faults, webhook, rollups, steps, last, procs>>

NextSweep == Sweep

SpecSweep == InitSweep /\ [][NextSweep]_vars

---------------------------------------------------------------------------
(* append_new_telegrams on its own, over any list and any state of the files *)

\* The two dates of the calls: 2023-11-15 and 2023-11-16 (Shanghai).
CallDates == {DateOf(1700000000), DateOf(1700064300)}

\* The items a call can be handed: an important and a general item of the
\* first date, an important item of the second, and an item without
\* timestamp.
CallItems ==
    { ProcessRaw(Raw(Some(1), <<"li", "hao", "A">>, <<>>, Some(1700000000), FALSE)),
      ProcessRaw(Raw(Some(2), <<"B">>, <<"plain">>, Some(1700000100), FALSE)),
      ProcessRaw(Raw(Some(4), <<"tu", "fa", "D">>, <<>>, Some(1700064300), FALSE)),
      ProcessRaw(Raw(Some(6), <<"E">>, <<>>, None, FALSE)) }

\* The states of an existing file: the template, a file that an earlier
\* call has filled with two general items and an important one, an empty
\* file, and a file that has lost its titles.
CallFiles ==
    { Template,
      MergeDay(<<>>, 0, <<ProcessRaw(Raw(Some(3), <<"C">>, <<>>, Some(1700063880), FALSE)),
                          ProcessRaw(Raw(Some(7), <<"tu", "po", "G">>, <<>>, Some(1700000400), FALSE)),
                          ProcessRaw(Raw(Some(5), <<"E">>, <<>>, Some(1700000300), FALSE))>>).lines,
      <<BLANK>>,
      <<TextLine("notes"), BLANK>> }

InitAppend ==
    /\ vendor = {}
    /\ ticks = <<1700064360>>
    /\ tick = 1
    /\ \E S \in SUBSET CallDates :
         /\ files \in [S -> CallFiles]
         /\ mtime = [d \in S |-> 1700000200]
    /\ pc = "idle"
    /\ attempt = 0
    /\ requests = 0
    /\ sleeps = 0
    /\ response = NoResponse
    /\ fetched = <<>>
    /\ outcome = "none"
    /\ faults = AllFaults
    /\ webhook = FALSE
    /\ rollups = <<>>
    /\ steps = <<>>
    /\ procs = <<>>
    /\ last = NoRun
    /\ sweep = NoSweep
    /\ call = NoCall

\* One call of append_new_telegrams(new_telegrams); fetched holds the
\* argument, outcome how the call ended.
AppendCall ==
    /\ pc = "idle"
    /\ outcome = "none"
    /\ \E new_telegrams \in SeqsUpTo(CallItems, MaxCallItems),
          rfail \in SUBSET DOMAIN files, wfail \in SUBSET CallDates :
         LET a == append_new_telegrams(files, mtime, new_telegrams, Now, rfail, wfail)
         IN  /\ files' = a.files
             /\ mtime' = a.mtime
             /\ fetched' = new_telegrams
             /\ outcome' = IF a.raised THEN "raised" ELSE "returned"
             /\ last' = [fetched |-> new_telegrams, notify_arg |-> a.list, has_new |-> a.saved,
                         write_failed |-> a.failed # {}, raised |-> a.raised,
                         rfail |-> rfail, wfail |-> wfail,
                         posted |-> FALSE, text |-> <<>>,
                         posts |-> 0, total_titles |-> 0, post |-> "none"]
    /\ UNCHANGED <<call, vendor, ticks, tick, pc, attempt, requests, sleeps, response, faults,
                   webhook, rollups, steps, sweep, procs>>

NextAppend == AppendCall

SpecAppend == InitAppend /\ [][NextAppend]_vars

---------------------------------------------------------------------------
(* generate_five_days_summary on its own (generate_five_days_summary_only) *)

\* The instant of the call: 00:06 of 2023-11-16 (Shanghai).
SummaryInstant == 1700064360

\* The dates whose file varies: today, the oldest date of the rollup and the
\* date before it, which the rollup does not cover.
SummaryDates == {DateOf(SummaryInstant), DateOf(SummaryInstant) - 4, DateOf(SummaryInstant) - 5}

\* The states of an archive file: the template, a file with an important
\* and a general item, an empty file, and a file without titles to which
\* append_new_telegrams has added a general item.
SummaryFiles ==
    LET i1 == ProcessRaw(Raw(Some(1), <<"li", "hao", "A">>, <<>>, Some(1700000000), FALSE))
        i2 == ProcessRaw(Raw(Some(2), <<"B">>, <<"plain">>, Some(1700000100), FALSE))
    IN  { Template,
          MergeDay(<<>>, 0, <<i2, i1>>).lines,
          <<BLANK>>,
          MergeDay(<<0 :> <<TextLine("notes"), BLANK>>>>, 0, <<i2>>).lines }

\* The instants at which the rollup files of the directory were generated,
\* a minute apart, all before the call.
EarlierInstants == {SummaryInstant - 60 * i : i \in 1..MaxRollups}

\* A rollup file keeps the modification time of its generation, or has the
\* time at which the whole directory was restored.  The file of the date
\* that the rollup does not cover, when there is one, holds two items.
InitSummary ==
    /\ vendor = {}
    /\ ticks = <<SummaryInstant>>
    /\ tick = 1
    /\ \E S \in SUBSET SummaryDates :
         /\ files \in [S -> SummaryFiles]
         /\ \A d \in S : d < DateOf(SummaryInstant) - 4 => ItemCount(files[d]) = 2
         /\ mtime = [d \in S |-> 1700000200]
    /\ pc = "idle"
    /\ attempt = 0
    /\ requests = 0
    /\ sleeps = 0
    /\ response = NoResponse
    /\ fetched = <<>>
    /\ outcome = "none"
    /\ faults = AllFaults
    /\ webhook = FALSE
    /\ \E R \in SUBSET EarlierInstants :
         \E m \in [R -> BOOLEAN] :
           rollups = [u \in R |-> [mtime |-> IF m[u] THEN u ELSE SummaryInstant - 60 * MaxRollups,
                                   doc |-> <<>>]]
    /\ steps = <<>>
    /\ procs = <<>>
    /\ last = NoRun
    /\ sweep = NoSweep
    /\ call = NoCall

\* One call of generate_five_days_summary_only(); sweep records the
\* directory of the rollups before the call and the deletions that failed.
SummaryCall ==
    /\ pc = "idle"
    /\ outcome = "none"
    /\ \E rfail \in {D \in SUBSET DOMAIN files : Cardinality(D) <= 1}, wfail \in BOOLEAN,
          dfail \in {D \in SUBSET DOMAIN rollups : Cardinality(D) <= 1} :
         \E order \in Perms(DOMAIN rollups \ {SummaryName(Now)}) :
           \E pos \in 1..(Len(order) + 1) :
             LET g == generate_five_days_summary(files, rollups, Now, rfail, wfail, order, pos, dfail)
             IN  /\ rollups' = g.rollups
                 /\ outcome' = IF g.raised THEN "raised" ELSE "returned"
                 /\ sweep' = [keep_count |-> 1, before |-> [u \in DOMAIN rollups |-> rollups[u].mtime],
                              deleted |-> DOMAIN rollups \ DOMAIN g.rollups, dfail |-> dfail]
                 /\ last' = [NoRun EXCEPT !.rfail = rfail, !.write_failed = wfail]
    /\ UNCHANGED <<call, vendor, ticks, tick, files, mtime, pc, attempt, requests, sleeps, response,
                   fetched, faults, webhook, steps, procs>>

NextSummary == SummaryCall

SpecSummary == InitSummary /\ [][NextSummary]_vars

---------------------------------------------------------------------------
(* The processing of one answer of the vendor on its own, followed by the
   filing of what it lists *)

MaxRawItems == 2

\* The raw items of an answer: an important item without brief, a general
\* item with a brief, an item whose title ends with the first character of
\* a keyword and begins with the second, an item whose keyword begins in
\* the title and ends in the brief, an item without id and an advertisement.
RawItems ==
    { Raw(Some(1), <<"li", "hao", "A">>, <<>>, Some(1700000000), FALSE),
      Raw(Some(2), <<"B">>, <<"plain">>, Some(1700000100), FALSE),
      Raw(Some(3), <<"hao", "C", "li">>, <<>>, Some(1700000160), FALSE),
      Raw(Some(4), <<"D", "tu">>, <<"fa", "E">>, Some(1700064300), FALSE),
      Raw(None, <<"F">>, <<>>, Some(1700000040), FALSE),
      Raw(Some(5), <<"zhong", "yao">>, <<>>, Some(1700000100), TRUE) }

InitProcess ==
    /\ vendor = {}
    /\ ticks = <<1700064360>>
    /\ tick = 1
    /\ files = <<>>
    /\ mtime = <<>>
    /\ pc = "idle"
    /\ attempt = 0
    /\ requests = 0
    /\ sleeps = 0
    /\ \E batch \in SeqsUpTo(RawItems, MaxRawItems) \ {<<>>} :
         response = Response("ok", 200, TRUE, Body(TRUE, Some(0), Data(TRUE, TRUE, batch)))
    /\ fetched = <<>>
    /\ outcome = "none"
    /\ faults = {}
    /\ webhook = FALSE
    /\ rollups = <<>>
    /\ steps = <<>>
    /\ procs = <<>>
    /\ last = NoRun
    /\ sweep = NoSweep
    /\ call = NoCall

\* Lines 97-119: the answer is processed into the list that fetch_telegrams
\* returns.
ProcessCall ==
    /\ outcome = "none"
    /\ fetched' = HandleResponse(response).list
    /\ outcome' = "list"
    /\ UNCHANGED <<call, vendor, ticks, tick, files, mtime, pc, attempt, requests, sleeps, response,
                   faults, webhook, rollups, steps, procs, last, sweep>>

\* Lines 989 and 997 on an empty archive: the list is filtered and filed.
FileCall ==
    /\ outcome = "list"
    /\ LET new_telegrams == NewTelegrams(fetched, {})
           a == append_new_telegrams(files, mtime, new_telegrams, Now, {}, {})
       IN  /\ files' = a.files
           /\ mtime' = a.mtime
           /\ outcome' = "returned"
    /\ UNCHANGED <<call, vendor, ticks, tick, pc, attempt, requests, sleeps, response, fetched,
                   faults, webhook, rollups, steps, procs, last, sweep>>

NextProcess == ProcessCall \/ FileCall

SpecProcess == InitProcess /\ [][NextProcess]_vars

---------------------------------------------------------------------------
(* Calls of one component on its own.  Every variable of the pipeline
   keeps its value of a program that has not run yet; call holds what the
   component is given and, afterwards, what it gives. *)

Standalone(c) ==
    /\ vendor = {}
    /\ ticks = <<0>>
    /\ tick = 1
    /\ files = <<>>
    /\ mtime = <<>>
    /\ pc = "idle"
    /\ attempt = 0
    /\ requests = 0
    /\ sleeps = 0
    /\ response = NoResponse
    /\ fetched = <<>>
    /\ outcome = "none"
    /\ faults = {}
    /\ webhook = FALSE
    /\ rollups = <<>>
    /\ steps = <<>>
    /\ procs = <<>>
    /\ last = NoRun
    /\ sweep = NoSweep
    /\ call = c

Untouched == UNCHANGED <<vendor, ticks, tick, files, mtime, pc, attempt, requests, sleeps,
                         response, fetched, outcome, faults, webhook, rollups, steps, procs,
                         last, sweep>>

---------------------------------------------------------------------------
(* FeishuBotManager.get_and_send_app_access_token *)

\* The answer to the request of line 698: code 0 ("ok"), code 0 with an
\* "expire" that is no number ("badexpire": timedelta raises at line 707),
\* another code ("refused"), or a request that raises ("error").
TokenAnswers == {"ok", "badexpire", "refused", "error"}

\* What a distributor does: there is none (the argument is None), or its
\* distribute_token returns True or False (it catches every exception).
Distributions == {"none", "ok", "failed"}

\* Lines 720-723 and 726-729: the variable starts as True and is assigned
\* the result of distribute_token only when there is a distributor.
DistributorSuccess(distribution) ==
    IF distribution = "none" THEN TRUE ELSE distribution = "ok"

\* The return value; message is what send_text_message returns (line 717).
get_and_send_app_access_token(answer, message, gitee, tencent) ==
    IF answer # "ok" THEN FALSE
    ELSE LET feishu_success == message
             gitee_success == DistributorSuccess(gitee)
             tencent_cloud_success == DistributorSuccess(tencent)
         IN  feishu_success \/ gitee_success \/ tencent_cloud_success

InitToken ==
    \E answer \in TokenAnswers, message \in BOOLEAN, gitee \in Distributions,
       tencent \in Distributions :
        Standalone([op |-> "token", answer |-> answer, message |-> message, gitee |-> gitee,
                    tencent |-> tencent, done |-> FALSE, result |-> FALSE])

TokenCall ==
    /\ call.op = "token"
    /\ ~call.done
    /\ call' = [call EXCEPT !.done = TRUE,
                            !.result = get_and_send_app_access_token(call.answer, call.message,
                                                                     call.gitee, call.tencent)]
    /\ Untouched

NextToken == TokenCall

SpecToken == InitToken /\ [][NextToken]_vars

---------------------------------------------------------------------------
(* JSONDataGenerator (src/json_data_generator.py): the archive files read
   back.  Here a line is the sequence of its characters; the address of the
   detail page and the text of a title or of a note count as one character
   each. *)

\* "%H:%M" of a time of day, empty for an item without time.
TwoDigits(n) == <<Digit[(n \div 10) + 1], Digit[(n % 10) + 1]>>

TimeChars(time) == IF time = <<>> THEN <<>> ELSE TwoDigits(time[1]) \o <<":">> \o TwoDigits(time[2])

\* The characters of a line of an archive file: for an item the f-strings
\* of lines 156-161 of cls_to_feishu.py.
Chars(line) ==
    IF line.kind = "item"
    THEN LET head == <<" ", " ", "-", " ", "[">> \o TimeChars(line.time) \o <<"]", " ">>
             linked == <<"[">> \o line.content \o <<"]", "(">> \o line.url \o <<")">>
             body == IF line.url # <<>> THEN linked ELSE line.content
         IN  head \o (IF line.bold THEN <<"*", "*">> \o body \o <<"*", "*">> ELSE body)
    ELSE IF line.kind = "raw" THEN line.content
    ELSE IF line.text = "" THEN <<>>
    ELSE <<line.text>>

\* A line of a file that the archive has not rendered, given by its
\* characters.
RawLine(chars) == [kind |-> "raw", text |-> "", time |-> <<>>, content |-> chars,
                   url |-> <<>>, bold |-> FALSE]

\* str.strip()
RECURSIVE LStrip(_)
LStrip(s) == IF s # <<>> /\ Head(s) = " " THEN LStrip(Tail(s)) ELSE s

Strip(s) == Reverse(LStrip(Reverse(LStrip(s))))

IsDigit(c) == c \in Range(Digit)

\* s holds the characters of t from position i on.
At(s, i, t) == i >= 1 /\ i + Len(t) - 1 <= Len(s) /\ SubSeq(s, i, i + Len(t) - 1) = t

\* re.search(r'\[(\d{2}:\d{2})\]', line): group 1 of the leftmost match, or
\* "00:00" (lines 139-140).
TimeOf(line) ==
    LET hits == {i \in 1..Len(line) :
                   /\ i + 6 <= Len(line)
                   /\ line[i] = "[" /\ IsDigit(line[i + 1]) /\ IsDigit(line[i + 2])
                   /\ line[i + 3] = ":" /\ IsDigit(line[i + 4]) /\ IsDigit(line[i + 5])
                   /\ line[i + 6] = "]"}
    IN  IF hits = {} THEN <<"0", "0", ":", "0", "0">>
        ELSE LET i == CHOOSE h \in hits : \A h2 \in hits : h <= h2
             IN  SubSeq(line, i + 1, i + 5)

\* \(https://www\.cls\.cn/detail/(\d+)\) matches the whole of u.
IsDetailLink(u) ==
    /\ Len(u) >= 4
    /\ u[1] = "(" /\ u[2] = DETAIL_URL /\ u[Len(u)] = ")"
    /\ \A i \in 3..(Len(u) - 1) : IsDigit(u[i])

\* re.search(r'\] (.+?)(?:\(https://www\.cls\.cn/detail/(\d+)\))?$', line),
\* group 1: what follows the leftmost "] " that is followed by a character,
\* without the link to the detail page when the line ends with one and
\* something stands before it; None when nothing matches (lines 143-145).
ContentMatch(line) ==
    LET hits == {p \in 1..Len(line) : At(line, p, <<"]", " ">>) /\ p + 2 <= Len(line)}
    IN  IF hits = {} THEN None
        ELSE LET p == CHOOSE h \in hits : \A h2 \in hits : h <= h2
                 rest == SubSeq(line, p + 2, Len(line))
                 cuts == {k \in 2..Len(rest) : IsDetailLink(SubSeq(rest, k, Len(rest)))}
             IN  IF cuts = {} THEN Some(rest)
                 ELSE Some(SubSeq(rest, 1, (CHOOSE k \in cuts : \A k2 \in cuts : k <= k2) - 1))

\* re.sub(r'\*\*(.+?)\*\*', r'\1', content) (line 149).
RECURSIVE RemoveBold(_)
RemoveBold(s) ==
    LET closes(i) == {j \in (i + 3)..(Len(s) - 1) : At(s, j, <<"*", "*">>)}
        opens == {i \in 1..Len(s) : At(s, i, <<"*", "*">>) /\ closes(i) # {}}
    IN  IF opens = {} THEN s
        ELSE LET i == CHOOSE o \in opens : \A o2 \in opens : o <= o2
                 j == CHOOSE c \in closes(i) : \A c2 \in closes(i) : c <= c2
             IN  SubSeq(s, 1, i - 1) \o SubSeq(s, i + 2, j - 1)
                   \o RemoveBold(SubSeq(s, j + 2, Len(s)))

\* re.sub(r'\[(.+?)\]\(.+?\)', r'\1', content) (line 150).
RECURSIVE RemoveLinks(_)
RemoveLinks(s) ==
    LET ends(j) == {k \in (j + 3)..Len(s) : s[k] = ")"}
        mids(i) == {j \in (i + 2)..Len(s) : At(s, j, <<"]", "(">>) /\ ends(j) # {}}
        opens == {i \in 1..Len(s) : s[i] = "[" /\ mids(i) # {}}
    IN  IF opens = {} THEN s
        ELSE LET i == CHOOSE o \in opens : \A o2 \in opens : o <= o2
                 j == CHOOSE m \in mids(i) : \A m2 \in mids(i) : m <= m2
                 k == CHOOSE e \in ends(j) : \A e2 \in ends(j) : e <= e2
             IN  SubSeq(s, 1, i - 1) \o SubSeq(s, i + 1, j - 1)
                   \o RemoveLinks(SubSeq(s, k + 1, Len(s)))

\* re.sub(r'\s+', ' ', content) (line 154).
RECURSIVE MergeSpaces(_)
MergeSpaces(s) ==
    IF Len(s) < 2 THEN s
    ELSE IF s[1] = " " /\ s[2] = " " THEN MergeSpaces(Tail(s))
    ELSE <<Head(s)>> \o MergeSpaces(Tail(s))

\* _parse_news_line(line, date_str, news_type): the item, or None.  No
\* operation of the try block raises for a string, so the except branch
\* of lines 167-169, the only place that prints, is never taken: logged is
\* the number of messages printed.
parse_news_line(line, date_str, news_type) ==
    LET content_match == ContentMatch(line)
        content == Strip(MergeSpaces(RemoveLinks(RemoveBold(content_match[1]))))
    IN  IF content_match = None THEN [item |-> None, logged |-> 0]
        ELSE IF content = <<>> THEN [item |-> None, logged |-> 0]
        ELSE [item |-> Some([date |-> date_str, time |-> TimeOf(line), type |-> news_type,
                             content |-> content]),
              logged |-> 0]

\* The characters of the two section titles that lines 120 and 123 look for.
MentionsImportant(line) == \E c \in Range(line) : c = RED_TITLE.text

MentionsGeneral(line) == \E c \in Range(line) : c = NORMAL_TITLE.text

\* The loop of _parse_markdown_content over the lines from the k-th on
\* (lines 116-131); st is [items, logged, current_type].
RECURSIVE ParseLines(_, _, _, _)
ParseLines(st, lines, k, date_str) ==
    IF k > Len(lines) THEN st
    ELSE LET line == Strip(Chars(lines[k]))
             parsed == parse_news_line(line, date_str, st.current_type)
         IN  IF MentionsImportant(line)
             THEN ParseLines([st EXCEPT !.current_type = "important"], lines, k + 1, date_str)
             ELSE IF MentionsGeneral(line)
             THEN ParseLines([st EXCEPT !.current_type = "general"], lines, k + 1, date_str)
             ELSE IF At(line, 1, <<"-", " ", "[">>) /\ "]" \in Range(line)
             THEN ParseLines([st EXCEPT !.items = IF parsed.item = None THEN @
                                                  ELSE Append(@, parsed.item[1]),
                                        !.logged = @ + parsed.logged],
                             lines, k + 1, date_str)
             ELSE ParseLines(st, lines, k + 1, date_str)

\* _parse_markdown_content(content, date_str) on the lines of a file.
parse_markdown_content(lines, date_str) ==
    ParseLines([items |-> <<>>, logged |-> 0, current_type |-> "general"], lines, 1, date_str)

\* Lines that are no rendered item: an entry whose text is missing, an
\* entry cut before the end of its time, and plain text.
UnparsableLines ==
    { <<"-", " ", "[", "0", "6", ":", "1", "6", "]">>,
      <<"-", " ", "[", "b", "a", "d">>,
      <<"n", "o", "t", "e">> }

\* The items that fetch_telegrams hands on, one for each raw item that is
\* no advertisement.
ProcessedItems == {ProcessRaw(r) : r \in {x \in RawItems : ~x.is_ad}}

\* The lines that the files read back are made of.
FileLines ==
    {RED_TITLE, NORMAL_TITLE, FILE_SEPARATOR, BLANK}
      \cup {format_telegram_lines_for_insertion(t)[1] : t \in ProcessedItems}
      \cup {RawLine(c) : c \in UnparsableLines}

\* Longest file read back.
MaxParseLines == 3

\* Either a whole file is parsed, or one item is rendered and its line
\* parsed.
InitParse ==
    \/ \E lines \in SeqsUpTo(FileLines, MaxParseLines) :
         Standalone([op |-> "parse", lines |-> lines, done |-> FALSE,
                     items |-> <<>>, logged |-> 0])
    \/ \E t \in ProcessedItems :
         Standalone([op |-> "line", t |-> t, done |-> FALSE, parsed |-> None])

\* _parse_markdown_content on the content of a file.
ParseFileCall ==
    /\ call.op = "parse"
    /\ ~call.done
    /\ LET r == parse_markdown_content(call.lines, "2023-11-15")
       IN  call' = [call EXCEPT !.done = TRUE, !.items = r.items, !.logged = r.logged]
    /\ Untouched

\* _parse_news_line on the line that _format_telegram_lines_for_insertion
\* renders for an item.
ParseLineCall ==
    /\ call.op = "line"
    /\ ~call.done
    /\ LET line == Chars(format_telegram_lines_for_insertion(call.t)[1])
       IN  call' = [call EXCEPT !.done = TRUE,
                                !.parsed = parse_news_line(line, "2023-11-15", "general").item]
    /\ Untouched

NextParse == ParseFileCall \/ ParseLineCall

SpecParse == InitParse /\ [][NextParse]_vars

---------------------------------------------------------------------------
(* JSONFixer (src/fix_json.py).  The content of a file is the sequence of
   its characters.  The documents are made of the digit 1, brackets and
   commas, with the line ends LF and CR and the control character VT
   (vertical tab) between them: json.loads reads them as numbers and
   arrays, and neither a quote nor a brace occurs. *)

LF == "LF"
CR == "CR"
VT == "VT"
TAB == "TAB"

JsonChars == {"[", "]", "1", ",", LF, CR, VT}

\* Longest file handed to fix_json_file.
MaxFixLen == 4

\* open(file_path, 'r').read(): the text mode turns every CR LF and every
\* single CR into LF (line 64-65).
RECURSIVE ReadText(_)
ReadText(bytes) ==
    IF bytes = <<>> THEN <<>>
    ELSE IF Head(bytes) = CR
    THEN <<LF>> \o ReadText(IF Len(bytes) >= 2 /\ bytes[2] = LF THEN Tail(Tail(bytes))
                            ELSE Tail(bytes))
    ELSE <<Head(bytes)>> \o ReadText(Tail(bytes))

\* The white space that json.loads skips.
JsonSpace == {" ", LF, CR, TAB}

RECURSIVE SkipSpace(_, _)
SkipSpace(s, i) == IF i <= Len(s) /\ s[i] \in JsonSpace THEN SkipSpace(s, i + 1) ELSE i

RECURSIVE EndOfNumber(_, _)
EndOfNumber(s, i) == IF i <= Len(s) /\ s[i] = "1" THEN EndOfNumber(s, i + 1) ELSE i

Num(digits) == [t |-> "num", digits |-> digits, items |-> <<>>]

Arr(items) == [t |-> "arr", digits |-> <<>>, items |-> items]

NoValue == [ok |-> FALSE, next |-> 0, val |-> Num(<<>>)]

\* The decoder of json.loads from position i on: the value read and the
\* position behind it, or no value.
RECURSIVE ParseValue(_, _)
RECURSIVE ParseElements(_, _, _)
ParseValue(s, i) ==
    LET j == SkipSpace(s, i)
    IN  IF j > Len(s) THEN NoValue
        ELSE IF s[j] = "1"
        THEN [ok |-> TRUE, next |-> EndOfNumber(s, j), val |-> Num(SubSeq(s, j, EndOfNumber(s, j) - 1))]
        ELSE IF s[j] = "["
        THEN LET a == SkipSpace(s, j + 1)
             IN  IF a <= Len(s) /\ s[a] = "]"
                 THEN [ok |-> TRUE, next |-> a + 1, val |-> Arr(<<>>)]
                 ELSE ParseElements(s, j + 1, <<>>)
        ELSE NoValue

ParseElements(s, i, acc) ==
    LET v == ParseValue(s, i)
        e == SkipSpace(s, v.next)
    IN  IF ~v.ok THEN NoValue
        ELSE IF e > Len(s) THEN NoValue
        ELSE IF s[e] = "," THEN ParseElements(s, e + 1, Append(acc, v.val))
        ELSE IF s[e] = "]" THEN [ok |-> TRUE, next |-> e + 1, val |-> Arr(Append(acc, v.val))]
        ELSE NoValue

\* json.loads(s): the document, or JSONDecodeError (ok is FALSE).
json_loads(s) ==
    LET v == ParseValue(s, 1)
    IN  IF v.ok /\ SkipSpace(s, v.next) > Len(s) THEN v ELSE NoValue

\* n spaces.
Spaces(n) == [i \in 1..n |-> " "]

\* json.dump(data, f, indent=2, separators=(',', ': ')) of a value that
\* stands at indentation level (lines 130-131).
RECURSIVE Dump(_, _)
RECURSIVE DumpItems(_, _, _)
Dump(val, level) ==
    IF val.t = "num" THEN val.digits
    ELSE IF val.items = <<>> THEN <<"[", "]">>
    ELSE <<"[">> \o DumpItems(val.items, 1, level + 1) \o <<LF>> \o Spaces(2 * level) \o <<"]">>

DumpItems(items, k, level) ==
    IF k > Len(items) THEN <<>>
    ELSE (IF k > 1 THEN <<",">> ELSE <<>>) \o <<LF>> \o Spaces(2 * level)
           \o Dump(items[k], level) \o DumpItems(items, k + 1, level)

\* re.sub(r'[\x00-\x1f\x7f-\x9f]', ' ', text)
ControlsToSpace(s) == [i \in 1..Len(s) |-> IF s[i] \in {LF, CR, VT, TAB} THEN " " ELSE s[i]]

\* clean_text(text) (lines 17-40): line ends, tabs and control characters
\* become spaces, runs of spaces one space, and the ends are stripped.  The
\* replacement of quotes changes no text without quotes.
clean_text(text) == Strip(MergeSpaces(ControlsToSpace(text)))

\* str.split('\n')
RECURSIVE SplitLines(_)
SplitLines(s) ==
    LET ends == {i \in 1..Len(s) : s[i] = LF}
    IN  IF ends = {} THEN <<s>>
        ELSE LET i == CHOOSE e \in ends : \A e2 \in ends : e <= e2
             IN  <<SubSeq(s, 1, i - 1)>> \o SplitLines(SubSeq(s, i + 1, Len(s)))

\* '\n'.join(lines)
RECURSIVE JoinLines(_)
JoinLines(lines) ==
    IF lines = <<>> THEN <<>>
    ELSE IF Len(lines) = 1 THEN lines[1]
    ELSE lines[1] \o <<LF>> \o JoinLines(Tail(lines))

\* Method 1 (lines 86-96): every line cleaned, the empty ones dropped.
CleanedLines(raw_content) ==
    LET lines == SplitLines(raw_content)
        cleaned == [i \in 1..Len(lines) |-> clean_text(lines[i])]
    IN  JoinLines(SelectSeq(cleaned, LAMBDA l : l # <<>>))

\* re.sub(r',\s*]', ']', s): a comma that only white space separates from
\* a closing bracket goes, with the white space (line 110).
RECURSIVE DropTrailingCommas(_)
DropTrailingCommas(s) ==
    IF s = <<>> THEN <<>>
    ELSE LET j == SkipSpace(s, 2)
         IN  IF Head(s) = "," /\ j <= Len(s) /\ s[j] = "]"
             THEN <<"]">> \o DropTrailingCommas(SubSeq(s, j + 1, Len(s)))
             ELSE <<Head(s)>> \o DropTrailingCommas(Tail(s))

\* Method 2 (lines 105-110).
AggressiveClean(raw_content) == DropTrailingCommas(ControlsToSpace(raw_content))

\* The places at which fix_json_file can fail on the way: nowhere, when it
\* writes the backup, or when it writes the target.
FixFaults == {"none", "backup", "target"}

Prefixes(s) == {SubSeq(s, 1, n) : n \in 0..(Len(s) - 1)}

\* The value that fix_json_file repairs the text into: that of method 1
\* (lines 98-100), or else that of method 2 (lines 112-114).
Repaired(raw_content) ==
    LET method1 == json_loads(CleanedLines(raw_content))
    IN  IF method1.ok THEN method1 ELSE json_loads(AggressiveClean(raw_content))

\* What a failed write can leave of the file it was writing: the file as
\* it was when open() fails, and otherwise a part of the new content, open()
\* having emptied the file.
LeftBy(old, new) == {old} \cup {Some(p) : p \in Prefixes(new)}

\* fix_json_file(file_path) on a file that holds bytes (None: no such
\* file); left is what a failing write leaves.  The result names what the
\* call returns, what the two files hold afterwards and the files written,
\* in order.
fix_json_file(bytes, fault, left) ==
    LET raw_content == ReadText(bytes[1])
        data == Repaired(raw_content)
        untouched(ret) == [result |-> ret, target |-> bytes, backup |-> None, writes |-> <<>>]
    IN  IF bytes = None THEN untouched(FALSE)
        ELSE IF json_loads(raw_content).ok THEN untouched(TRUE)
        ELSE IF ~data.ok THEN untouched(FALSE)
        ELSE IF fault = "backup"
        THEN [result |-> FALSE, target |-> bytes, backup |-> left, writes |-> <<"backup">>]
        ELSE IF fault = "target"
        THEN [result |-> FALSE, target |-> left, backup |-> Some(raw_content),
              writes |-> <<"backup", "target">>]
        ELSE [result |-> json_loads(Dump(data.val, 0)).ok,
              target |-> Some(Dump(data.val, 0)),
              backup |-> Some(raw_content),
              writes |-> <<"backup", "target">>]

\* The outcomes of the write that fails in a call, if one does.
Leftovers(bytes, fault) ==
    IF bytes = None \/ fault = "none" THEN {None}
    ELSE IF ~Repaired(ReadText(bytes[1])).ok THEN {None}
    ELSE IF fault = "backup" THEN LeftBy(None, ReadText(bytes[1]))
    ELSE LeftBy(bytes, Dump(Repaired(ReadText(bytes[1])).val, 0))

InitFix ==
    \E bytes \in {None} \cup {Some(s) : s \in SeqsUpTo(JsonChars, MaxFixLen)} :
      \E fault \in FixFaults :
        Standalone([op |-> "fix", original |-> bytes, fault |-> fault, done |-> FALSE,
                    result |-> FALSE, target |-> bytes, backup |-> None, writes |-> <<>>])

FixCall ==
    /\ call.op = "fix"
    /\ ~call.done
    /\ \E left \in Leftovers(call.original, call.fault) :
         LET r == fix_json_file(call.original, call.fault, left)
         IN  call' = [call EXCEPT !.done = TRUE, !.result = r.result, !.target = r.target,
                                  !.backup = r.backup, !.writes = r.writes]
    /\ Untouched

NextFix == FixCall

SpecFix == InitFix /\ [][NextFix]_vars

---------------------------------------------------------------------------
(* Two invocations of main side by side on one output directory *)

Invocations == {1, 2}

Other(p) == 3 - p

\* What the two invocations have fetched: a general item of 2023-11-15, an
\* older general item of that date, or an important item of 2023-11-16
\* followed by the first.
ConcBatches ==
    LET i2 == ProcessRaw(Raw(Some(2), <<"B">>, <<"plain">>, Some(1700000100), FALSE))
        i3 == ProcessRaw(Raw(Some(3), <<"C">>, <<>>, Some(1700063880), FALSE))
        i4 == ProcessRaw(Raw(Some(4), <<"tu", "fa", "D">>, <<>>, Some(1700064300), FALSE))
    IN  { <<i2>>, <<i3>>, <<i4, i2>> }

\* The locals of an invocation: its position, fetched_telegrams,
\* new_telegrams as sorted, the keys of telegrams_by_date, the group it is
\* at and the lines it is about to write; rd and wr number, for each date,
\* the writes of the file that had happened when the invocation read it
\* and the write the invocation made itself (0: none yet).
NewProc(batch) ==
    [pc |-> "start", fetched |-> batch, new |-> <<>>, dates |-> <<>>, k |-> 1,
     lines |-> <<>>, rd |-> [d \in CallDates |-> 0], wr |-> [d \in CallDates |-> 0]]

\* The number of writes the file of a date has had.
Writes(d) == Cardinality({p \in DOMAIN procs : procs[p].wr[d] > 0})

InitConc ==
    /\ vendor = {}
    /\ ticks = <<1700064360>>
    /\ tick = 1
    /\ files = ArchiveAfterDays(1).files
    /\ mtime = ArchiveAfterDays(1).mtime
    /\ pc = "idle"
    /\ attempt = 0
    /\ requests = 0
    /\ sleeps = 0
    /\ response = NoResponse
    /\ fetched = <<>>
    /\ outcome = "none"
    /\ faults = {}
    /\ webhook = FALSE
    /\ rollups = <<>>
    /\ steps = <<>>
    /\ procs \in [Invocations -> {NewProc(b) : b \in ConcBatches}]
    /\ last = NoRun
    /\ sweep = NoSweep
    /\ call = NoCall

\* Lines 986-989 and 174-183: the known ids of today's file are read, the
\* new items are selected, sorted and grouped by date.
ConcReadIds(p) ==
    /\ procs[p].pc = "start"
    /\ LET existing_ids == get_existing_ids_for_date(files, DedupDate(Now))
           new_telegrams == SortNewestFirst(NewTelegrams(procs[p].fetched, existing_ids))
           dates == GroupDates(new_telegrams, <<>>)
       IN  procs' = [procs EXCEPT ![p].new = new_telegrams, ![p].dates = dates,
                                  ![p].pc = IF dates = <<>> THEN "done" ELSE "read"]
    /\ UNCHANGED <<call, vendor, ticks, tick, files, mtime, pc, attempt, requests, sleeps, response,
                   fetched, outcome, faults, webhook, rollups, steps, last, sweep>>

\* The items of the group an invocation is at.
ConcItems(p) ==
    SelectSeq(procs[p].new, LAMBDA t : GroupDate(t) = procs[p].dates[procs[p].k])

\* Lines 187-224: the file of the group's date is read (or the template
\* taken) and the new lines are inserted into the list in memory.
ConcReadFile(p) ==
    /\ procs[p].pc = "read"
    /\ LET date == procs[p].dates[procs[p].k]
       IN  procs' = [procs EXCEPT ![p].lines = MergeDay(files, date, ConcItems(p)).lines,
                                  ![p].rd[date] = Writes(date),
                                  ![p].pc = "write"]
    /\ UNCHANGED <<call, vendor, ticks, tick, files, mtime, pc, attempt, requests, sleeps, response,
                   fetched, outcome, faults, webhook, rollups, steps, last, sweep>>

\* write_text merging the items into the file as it is at the write.
write_text_remerged(fs, date, lines, items_for_day) ==
    [d \in DOMAIN fs \cup {date} |-> IF d = date THEN MergeDay(fs, date, items_for_day).lines
                                      ELSE fs[d]]

\* Line 228: write_text replaces the file by the lines held in memory.
write_text(fs, date, lines, items_for_day) ==
    [d \in DOMAIN fs \cup {date} |-> IF d = date THEN lines ELSE fs[d]]

\* Lines 227-228 and the loop header: the file is written and the
\* invocation goes on to its next group.
ConcWriteFile(p) ==
    /\ procs[p].pc = "write"
    /\ LET date == procs[p].dates[procs[p].k]
       IN  /\ files' = write_text(files, date, procs[p].lines, ConcItems(p))
           /\ mtime' = [d \in DOMAIN mtime \cup {date} |-> IF d = date THEN Now ELSE mtime[d]]
           /\ procs' = [procs EXCEPT ![p].wr[date] = Writes(date) + 1,
                                      ![p].k = procs[p].k + 1,
                                      ![p].lines = <<>>,
                                      ![p].pc = IF procs[p].k < Len(procs[p].dates)
                                                THEN "read" ELSE "done"]
    /\ UNCHANGED <<call, vendor, ticks, tick, pc, attempt, requests, sleeps, response,
                   fetched, outcome, faults, webhook, rollups, steps, last, sweep>>

NextConc ==
    \E p \in Invocations : ConcReadIds(p) \/ ConcReadFile(p) \/ ConcWriteFile(p)

SpecConc == InitConc /\ [][NextConc]_vars

---------------------------------------------------------------------------
(* Vocabulary of the properties *)

\* The archive step of main, which follows a non-empty fetch (MainArchive).
BodyEnabled == pc = "returned" /\ outcome = "list" /\ fetched # <<>>

\* The id a rendered item line records: the tail of its link.
LineId(line) == Tail(line.url)

\* The ids recorded in the item lines of the file of a date.
RecordedIds(fs, date) ==
    IF date \notin DOMAIN fs THEN {}
    ELSE {LineId(fs[date][i]) : i \in {j \in 1..Len(fs[date]) : IsItem(fs[date][j]) /\ fs[date][j].url # <<>>}}

\* The publication times the vendor gives to the item rendered in a line.
LineTimes(line) ==
    {v.raw.ctime[1] : v \in {x \in vendor : Truthy(ParseCtime(x.raw.ctime))
                                            /\ ProcessRaw(x.raw).url = line.url}}

\* The section in which line i of a file lies: the title last met above it,
\* none once the separator has closed the section.
SectionAt(lines, i) ==
    LET marks == {k \in 1..(i - 1) : lines[k] \in {RED_TITLE, NORMAL_TITLE, FILE_SEPARATOR}}
    IN  IF marks = {} THEN "none"
        ELSE LET m == CHOOSE k \in marks : \A k2 \in marks : k2 <= k
             IN  IF lines[m] = RED_TITLE THEN "red"
                 ELSE IF lines[m] = NORMAL_TITLE THEN "normal"
                 ELSE "none"

Occurrences(lines, x) == Cardinality({i \in 1..Len(lines) : lines[i] = x})

ItemPositions(lines) == {i \in 1..Len(lines) : IsItem(lines[i])}

---------------------------------------------------------------------------
(* Properties *)

\* C1: after any sequence of runs, no id is recorded in two item lines of
\* the file of a date.
C1_OneEntryPerId ==
    \A d \in DOMAIN files : \A i, j \in ItemPositions(files[d]) :
        files[d][i].url = files[d][j].url => i = j

\* C2: a run of main whose fetched batch is the batch the previous run
\* merged (all of whose writes succeeded) writes nothing: every archive
\* file and its modification time stay as they are.
C2_SecondRunWritesNothing ==
    [][(BodyEnabled /\ fetched = last.fetched /\ ~last.write_failed)
         => (files' = files /\ mtime' = mtime)]_vars

\* C3: the list main hands to send_notification holds exactly the fetched
\* items whose id the archive file of the item's civil date did not record
\* immediately before the run.
C3_NotifyExactlyAbsent ==
    [][BodyEnabled =>
         Range(last'.notify_arg) =
           {t \in Range(fetched) :
              Truthy(t.timestamp_raw)
              /\ t.id \notin RecordedIds(files, DateOf(t.timestamp_raw[1]))}]_vars

\* C4: an item whose timestamp falls on civil date D is recorded only in
\* the file of D, whatever the wall-clock date of the run that wrote it.
C4_DatePartition ==
    \A d \in DOMAIN files : \A i \in ItemPositions(files[d]) :
        \A ts \in LineTimes(files[d][i]) : DateOf(ts) = d

\* A run on a later civil date has just written an item into the file of
\* an earlier date.
C4_Witness ==
    \E d \in DOMAIN files :
        /\ d # DateOf(Now)
        /\ mtime[d] >= Now
        /\ ItemPositions(files[d]) # {}

\* C5: within each section of every archive file the item lines are in
\* non-increasing order of timestamp.
C5_NewestFirst ==
    \A d \in DOMAIN files : \A i, j \in ItemPositions(files[d]) :
        (i < j /\ SectionAt(files[d], i) = SectionAt(files[d], j))
          => \A ti \in LineTimes(files[d][i]), tj \in LineTimes(files[d][j]) : ti >= tj

\* C6: in every archive file each title occurs at most once, the important
\* title precedes the general one, every bold item line lies in the
\* important section and every other item line in the general section.
C6_Sections ==
    \A d \in DOMAIN files :
        LET lines == files[d] IN
        /\ Occurrences(lines, RED_TITLE) <= 1
        /\ Occurrences(lines, NORMAL_TITLE) <= 1
        /\ (IndexOf(lines, RED_TITLE) # 0 /\ IndexOf(lines, NORMAL_TITLE) # 0)
             => IndexOf(lines, RED_TITLE) < IndexOf(lines, NORMAL_TITLE)
        /\ \A i \in ItemPositions(lines) :
             SectionAt(lines, i) = IF lines[i].bold THEN "red" ELSE "normal"

\* A file that several calls have filled holds items in both sections.
C6_Witness ==
    \E d \in DOMAIN files :
        /\ \E i, j \in ItemPositions(files[d]) : files[d][i].bold /\ ~files[d][j].bold
        /\ Cardinality(ItemPositions(files[d])) >= 3

C8_DeletesOldestDates ==
    [][\A d \in DOMAIN files \ DOMAIN files' :
         /\ d \in sweep'.deleted
         /\ Cardinality({e \in DOMAIN sweep'.before : e > d}) >= sweep'.keep_count
         /\ \A e \in DOMAIN files' : e > d]_vars

\* A response of the shape fetch_telegrams expects.
ValidResponse(resp) ==
    /\ resp.net = "ok" /\ resp.status = 200 /\ resp.is_json
    /\ resp.body.is_object /\ resp.body.error = Some(0)
    /\ resp.body.data.truthy /\ resp.body.data.is_object
    /\ resp.body.data.roll_data # <<>>

\* A response that fails by network error or by HTTP error status.
TransportFailure(resp) == resp.net = "error" \/ (resp.net = "ok" /\ resp.status >= 400)

\* The part of C9 that holds in every state of a call.
C9_Bounded ==
    /\ requests <= RETRY_ATTEMPTS
    /\ pc = "fetch" => sleeps = requests
    /\ pc \in {"sleep", "returned"} => sleeps = requests - 1
    /\ pc = "sleep" => ~ValidResponse(response)
    /\ (pc = "returned" /\ ValidResponse(response))
         => (outcome = "list" /\ fetched = ProcessAll(response.body.data.roll_data))
    /\ (pc = "returned" /\ TransportFailure(response))
         => (outcome = "list" /\ fetched = <<>> /\ requests = RETRY_ATTEMPTS)

\* C9: fetch_telegrams terminates; it issues at most RETRY_ATTEMPTS requests,
\* sleeps only between two requests, returns the processed items of the
\* first valid response, and returns the empty list once the last attempt
\* has failed by network error or HTTP error status.
C9_FetchTerminates ==
    /\ []C9_Bounded
    /\ (pc = "fetch") ~> (pc = "returned")

\* Every attempt has failed on the network and the call has returned [].
C9_Witness ==
    /\ pc = "returned"
    /\ outcome = "list"
    /\ fetched = <<>>
    /\ response.net = "error"
    /\ requests = RETRY_ATTEMPTS
    /\ sleeps = RETRY_ATTEMPTS - 1

\* C10: a response whose body lacks the status field or the items array (or
\* is no JSON object, or holds a data field that is no object, or is no
\* JSON) is a failed attempt: the call goes on to the retry path and ends
\* with a list, never with an exception.
C10_BadShapeIsFailedAttempt ==
    (pc \in {"sleep", "returned"} /\ response.net = "ok" /\ response.status = 200
       /\ ~ValidResponse(response))
      => /\ outcome # "raised"
         /\ pc = "returned" => (outcome = "list" /\ fetched = <<>>)

\* The processed items of the feed that have no timestamp.
Untimed == {t \in {ProcessRaw(v.raw) : v \in vendor} : t.timestamp_raw = None}

\* C11: an item whose timestamp is missing or unparsable is recorded in no
\* archive file, and is in neither the list main hands to send_notification
\* nor the text that is posted.
C11_UntimedExcluded ==
    /\ \A d \in DOMAIN files : \A i \in ItemPositions(files[d]) :
          \A t \in Untimed : files[d][i].url # t.url
    /\ \A t \in Untimed : t \notin Range(last.notify_arg) /\ t \notin Range(last.text)

\* A run has fetched an item without timestamp together with an ordinary
\* item, has written the archive and has posted the notification.
C11_Witness ==
    /\ pc = "notified"
    /\ Range(fetched) \cap Untimed # {}
    /\ last.has_new
    /\ last.posted

\* A call of append_new_telegrams on its own is made in this step.
AppendCalled == outcome = "none" /\ outcome' # "none"

\* The item lines of the file of a date, and their number.
ItemLines(fs, date) ==
    IF date \notin DOMAIN fs THEN {}
    ELSE {fs[date][i] : i \in ItemPositions(fs[date])}

ItemsIn(fs, date) == IF date \notin DOMAIN fs THEN 0 ELSE ItemCount(fs[date])

\* The rendered line of an item.
LineOf(t) == format_telegram_lines_for_insertion(t)[1]

\* C12: a call of append_new_telegrams that returns gives True exactly when
\* it has written at least one item into some archive file, whatever the
\* list, the titles of the existing files and the outcome of the writes.
C12_ReturnsWhetherWritten ==
    [][(AppendCalled /\ outcome' = "returned")
         => (last'.has_new <=> \E d \in DOMAIN files' : ItemsIn(files', d) > ItemsIn(files, d))]_vars

\* C13: when the read or the write of the file of a date fails in a call
\* of append_new_telegrams, no exception leaves the call, and every item of
\* a date whose file is read and written without failure is in that file
\* afterwards.
C13_FailureSkipsOneDate ==
    [][(AppendCalled /\ ~SortRaises(fetched')) =>
         /\ outcome' = "returned"
         /\ \A t \in Range(fetched') :
               (Truthy(t.timestamp_raw) /\ GroupDate(t) \notin last'.rfail \cup last'.wfail)
                 => LineOf(t) \in ItemLines(files', GroupDate(t))]_vars

\* Both invocations have ended.
BothDone == procs # <<>> /\ \A p \in Invocations : procs[p].pc = "done"

\* An item that invocation p has written is not in the file of its date.
Lost(p, t) == LineOf(t) \notin ItemLines(files, GroupDate(t))

\* For the file of date d, invocation q read it before invocation p wrote
\* it, and wrote it after p.
Overwrote(q, p, d) ==
    /\ procs[p].wr[d] > 0
    /\ procs[q].wr[d] > procs[p].wr[d]
    /\ procs[q].rd[d] < procs[p].wr[d]

\* C14: of two invocations of main side by side, the one that writes a
\* file last wins: once both have ended, an item that one has written is
\* missing from the file exactly when the other read that file before the
\* write, wrote it afterwards and had not taken the item for new itself.
C14_LastWriterWins ==
    BothDone =>
      \A p \in Invocations : \A t \in Range(procs[p].new) :
        Lost(p, t) <=> (Overwrote(Other(p), p, GroupDate(t))
                        /\ t \notin Range(procs[Other(p)].new))

\* Both invocations have ended and the archive is corrupted: an item that
\* one of them wrote is in no file.
C14_Witness ==
    /\ BothDone
    /\ \E p \in Invocations : \E t \in Range(procs[p].new) : Lost(p, t)

IsPrefix(s, t) == Len(s) <= Len(t) /\ s = SubSeq(t, 1, Len(s))

\* The rollup document that the 5days directory holds under the name of the
\* current instant.
CurrentRollup == IF SummaryName(Now) \in DOMAIN rollups THEN rollups[SummaryName(Now)].doc ELSE <<>>

\* C15, as claimed: the steps of a run happen in the order fetch, archive,
\* rollup, notify; no notification is sent before the rollup is generated.
C15_RollupBeforeNotify == IsPrefix(steps, <<"fetch", "archive", "rollup", "notify">>)

\* C15, amended: the steps of a run happen in the order fetch, archive,
\* notify, rollup; the archive step takes its items from the fetched list,
\* the notifier posts the list the archive step took for new, and the
\* rollup is made of the archive files as the archive step left them.
C15_NotifyBeforeRollup ==
    /\ IsPrefix(steps, <<"fetch", "archive", "notify", "rollup">>)
    /\ Len(steps) >= 2 =>
          /\ last.fetched = fetched
          /\ Range(last.notify_arg) \subseteq Range(fetched)
    /\ Len(steps) >= 3 =>
          /\ last.posted <=> (webhook /\ last.notify_arg # <<>>)
          /\ last.posted => Range(last.text) = Range(last.notify_arg)
    /\ Len(steps) >= 4 => CurrentRollup = SummaryLines(files, Now, {}).lines

\* A run has posted its notification and, after it, generated the rollup,
\* which lists an item the run has just archived.
C15_Witness ==
    /\ steps = <<"fetch", "archive", "notify", "rollup">>
    /\ last.posted
    /\ last.has_new
    /\ \E i \in 1..Len(CurrentRollup) :
         IsItem(CurrentRollup[i]) /\ CurrentRollup[i] = LineOf(last.notify_arg[1])

\* A run of main ends in this step.
RunEnds == pc # "idle" /\ pc' = "idle"

\* C16: a run of main whose fetch has returned (with items or, after the
\* last failed attempt, without) ends only after the rollup has been
\* generated and the retention sweep made.
C16_EveryStepRuns ==
    [][(RunEnds /\ outcome = "list")
         => (Range(steps) = {"fetch", "archive", "notify", "rollup"} /\ sweep'.before = mtime)]_vars

\* A call of generate_five_days_summary on its own is made in this step,
\* and has been made.
SummaryCalled == sweep = NoSweep /\ sweep' # NoSweep

SummaryReturned == sweep.keep_count = 1 /\ outcome = "returned"

\* C17: after a call of generate_five_days_summary that has written its
\* document and in which no deletion has failed, the 5days directory holds
\* one file, the document of this call, whatever files it held before.
C17_OneRollupRemains ==
    (SummaryReturned /\ ~last.write_failed /\ sweep.dfail = {}) =>
        /\ DOMAIN rollups = {SummaryName(Now)}
        /\ rollups[SummaryName(Now)].doc = SummaryLines(files, Now, last.rfail).lines

\* A call has found as many earlier rollup files as the directory can hold
\* and has deleted them all.
C17_Witness ==
    /\ SummaryReturned
    /\ ~last.write_failed
    /\ sweep.dfail = {}
    /\ sweep.deleted = EarlierInstants
    /\ DOMAIN rollups = {SummaryName(Now)}

\* C18: a call of generate_five_days_summary on its own leaves every
\* archive file and its modification time as they are and returns without
\* an exception, whatever the archive holds and whichever read, write or
\* deletion fails.
C18_SummaryIndependent ==
    [][SummaryCalled => (files' = files /\ mtime' = mtime /\ outcome' = "returned")]_vars

\* A call has returned although the read of an archive file of the last
\* five days failed.
C18_Witness ==
    /\ SummaryReturned
    /\ last.rfail \cap Range(FiveDays(Now)) # {}
    /\ files # <<>>

\* The lines of a document between the heading at position h and the
\* separator that closes the block of that date.
BlockAfter(doc, h) ==
    LET e == CHOOSE j \in (h + 1)..Len(doc) :
               doc[j] = FILE_SEPARATOR /\ \A i \in (h + 1)..(j - 1) : doc[i] # FILE_SEPARATOR
    IN  SubSeq(doc, h + 1, e - 1)

Placeholders == {NO_DATA_LINE, READ_ERROR_LINE, NO_FILE_LINE}

\* C19: the document a call has written holds, for today and each of the
\* four dates before, the heading of the date followed either by item
\* lines, at least one and all of them lines of the archive file of that
\* date, or by a placeholder; it is a placeholder when the file of the date
\* does not exist or holds no item line.
C19_EveryDateHasBlock ==
    (SummaryReturned /\ SummaryName(Now) \in DOMAIN rollups) =>
        LET doc == rollups[SummaryName(Now)].doc IN
        \A day_offset \in 0..4 :
            LET d == DateOf(Now) - day_offset
                h == IndexOf(doc, DateHeading(d))
            IN  /\ h # 0
                /\ LET block == BlockAfter(doc, h)
                       shown == {block[i] : i \in ItemPositions(block)}
                       placed == Range(block) \cap Placeholders
                   IN  /\ \/ shown # {} /\ shown \subseteq ItemLines(files, d) /\ placed = {}
                          \/ shown = {} /\ placed # {}
                       /\ ItemsIn(files, d) = 0 => placed # {}

\* The document of a call shows the items of today's file, a placeholder
\* for the oldest date, whose file holds no item, and a placeholder for a
\* date that has no file.
C19_Witness ==
    /\ SummaryReturned
    /\ SummaryName(Now) \in DOMAIN rollups
    /\ last.rfail = {}
    /\ ItemsIn(files, DateOf(Now)) > 0
    /\ (DateOf(Now) - 4) \in DOMAIN files
    /\ ItemsIn(files, DateOf(Now) - 4) = 0
    /\ NO_DATA_LINE \in Range(rollups[SummaryName(Now)].doc)
    /\ NO_FILE_LINE \in Range(rollups[SummaryName(Now)].doc)

\* The position of the line of an item in the file of its date (0 when the
\* file does not hold it).
ArchivePos(t) ==
    IF GroupDate(t) \notin DOMAIN files THEN 0
    ELSE IndexOf(files[GroupDate(t)], LineOf(t))

\* Two items of a notification text that the archive shows in the same
\* section of the same file.
ShownTogether(a, b) ==
    /\ GroupDate(a) = GroupDate(b)
    /\ a.is_red = b.is_red
    /\ ArchivePos(a) # 0
    /\ ArchivePos(b) # 0

\* The run has sent its notification.
Notified == pc = PcAfter("notify") /\ last.posted

\* C20 as stated: two new items that the archive shows in the same section
\* of the same file appear in the notification text in the same relative
\* order as in the archive file.
C20_SameOrderAsArchive ==
    Notified =>
      \A i, j \in 1..Len(last.text) :
        (i < j /\ ShownTogether(last.text[i], last.text[j]))
          => ArchivePos(last.text[i]) < ArchivePos(last.text[j])

\* C20: the notification text lists the new items of the run by ascending
\* timestamp, and two of them with different timestamps that the archive
\* shows in the same section of the same file stand there in the opposite
\* order, the newer above the older.
C20_OppositeOrders ==
    Notified =>
      \A i, j \in 1..Len(last.text) :
        i < j =>
          /\ last.text[i].timestamp_raw[1] <= last.text[j].timestamp_raw[1]
          /\ (/\ ShownTogether(last.text[i], last.text[j])
              /\ last.text[i].timestamp_raw # last.text[j].timestamp_raw)
                => ArchivePos(last.text[j]) < ArchivePos(last.text[i])

\* A run has notified two new items of different timestamps that it has
\* filed in the same section of the same file.
C20_Witness ==
    /\ Notified
    /\ \E i, j \in 1..Len(last.text) :
         /\ i < j
         /\ ShownTogether(last.text[i], last.text[j])
         /\ last.text[i].timestamp_raw # last.text[j].timestamp_raw

\* The call of send_notification of a run is made in this step.
NotifyCalled == pc = PcAfter("archive") /\ pc' # pc

\* C21: the call of send_notification in main makes at most one POST and
\* returns, whatever the webhook answers or raises; the run goes on to the
\* rollup, and once the notifier has been called the run ends with the
\* retention sweep only, after the rollup has been generated.
C21_NotifyBestEffort ==
    [][/\ NotifyCalled => /\ pc' = PcAfter("notify")
                          /\ ~last'.raised
                          /\ last'.posts <= 1
                          /\ last'.posted <=> last'.post \in {"ok", "status", "error"}
       /\ (RunEnds /\ "notify" \in Range(steps))
            => (steps = <<"fetch", "archive", "notify", "rollup">> /\ sweep'.before = mtime)]_vars

\* The POST of a run has raised a RequestException, and the run has gone on
\* to generate its rollup.
C21_Witness ==
    /\ pc = PcAfter("rollup")
    /\ steps = <<"fetch", "archive", "notify", "rollup">>
    /\ last.post = "error"
    /\ last.posts = 1
    /\ SummaryName(Now) \in DOMAIN rollups

\* C22: the call of send_notification in main makes no POST when no
\* webhook address is configured or the list of new items is empty, and
\* otherwise exactly one POST, whose total_titles is the number of items of
\* the list and whose text holds exactly these items.
C22_PostsOnceWhenDue ==
    [][NotifyCalled =>
         IF ~webhook \/ last.notify_arg = <<>>
         THEN last'.posts = 0 /\ ~last'.posted
         ELSE /\ last'.posts = 1
              /\ last'.total_titles = Len(last.notify_arg)
              /\ Len(last'.text) = last'.total_titles
              /\ Range(last'.text) = Range(last.notify_arg)]_vars

\* A run with a webhook has posted two new items; its payload counts two.
C22_Witness ==
    /\ pc = PcAfter("notify")
    /\ webhook
    /\ Len(last.notify_arg) = 2
    /\ last.posts = 1
    /\ last.total_titles = 2

\* A run without a webhook has found new items and has posted nothing.
C22_WitnessNoHook ==
    /\ pc = PcAfter("notify")
    /\ ~webhook
    /\ last.notify_arg # <<>>
    /\ last.posts = 0

\* A run with a webhook has found nothing new and has posted nothing.
C22_WitnessNothingNew ==
    /\ pc = PcAfter("notify")
    /\ webhook
    /\ last.notify_arg = <<>>
    /\ last.posts = 0

\* The raw items of the answer that are no advertisement, in the order of
\* the answer.
RawKept == SelectSeq(response.body.data.roll_data, LAMBDA r : ~r.is_ad)

\* An answer has been processed on its own, and the list has been filed.
Processed == outcome \in {"list", "returned"} /\ response # NoResponse

Filed == outcome = "returned" /\ response # NoResponse

\* The section of the file of its date in which the line of an item stands.
SectionOf(t) ==
    LET lines == files[GroupDate(t)]
    IN  SectionAt(lines, IndexOf(lines, LineOf(t)))

\* C23: the list that fetch_telegrams returns holds one item for each raw
\* item that is no advertisement and none for an advertisement; the flag
\* of an item is true exactly when a keyword occurs in the title followed
\* by the brief of its raw item; and a filed item stands in the important
\* section of the file of its date when flagged, in the general one when
\* not.
C23_FlagAndSection ==
    /\ Processed =>
         /\ Len(fetched) = Len(RawKept)
         /\ \A i \in 1..Len(fetched) :
              /\ fetched[i].id = PyStr(RawKept[i].id)
              /\ fetched[i].is_red
                   <=> \E k \in RED_KEYWORDS : Contains(RawKept[i].title \o RawKept[i].brief, k)
    /\ Filed =>
         \A i \in 1..Len(fetched) :
              /\ GroupDate(fetched[i]) \in DOMAIN files
              /\ SectionOf(fetched[i]) = IF fetched[i].is_red THEN "red" ELSE "normal"

\* C24: the url of a processed item is the address of the detail page
\* followed by the id of its raw item, and empty when the raw item has no
\* id.
C24_UrlFromId ==
    Processed =>
      \A i \in 1..Len(fetched) :
        fetched[i].url = IF RawKept[i].id # None
                         THEN <<DETAIL_URL>> \o Str(RawKept[i].id[1])
                         ELSE <<>>

\* C26: after cleanup_old_files(k) over n files in which the unlink of one
\* file raises, that file is still there, every file that remains besides
\* it is among the min(n, k) most recently modified, and no other file is
\* left beyond them: the sweep has gone on after the failure and has
\* returned.
C26_SweepGoesOn ==
    (sweep # NoSweep /\ sweep.dfail # {}) =>
        LET before == DOMAIN sweep.before
            kept == before \ sweep.deleted
            due == Min(Cardinality(before), sweep.keep_count)
        IN  /\ DOMAIN files = kept
            /\ sweep.dfail \subseteq kept
            /\ Cardinality(kept) >= due
            /\ Cardinality(kept \ sweep.dfail) <= due
            /\ \A r \in kept \ sweep.dfail, x \in sweep.deleted : sweep.before[r] >= sweep.before[x]
            /\ \A r \in kept \ sweep.dfail, x \in sweep.dfail :
                 Cardinality(kept) > due => sweep.before[r] >= sweep.before[x]

\* A sweep had three files to delete; the unlink of the most recent of them
\* has raised, and the two older ones are gone.
C26_Witness ==
    /\ sweep # NoSweep
    /\ Cardinality(sweep.dfail) = 1
    /\ Cardinality(sweep.deleted) = 2
    /\ Cardinality(DOMAIN files) = sweep.keep_count + 1
    /\ \A x \in sweep.deleted, f \in sweep.dfail : sweep.before[x] < sweep.before[f]

\* a is what remains of b after some of its elements are left out.
RECURSIVE IsSubsequence(_, _)
IsSubsequence(a, b) ==
    IF a = <<>> THEN TRUE
    ELSE IF b = <<>> THEN FALSE
    ELSE IF Head(a) = Head(b) THEN IsSubsequence(Tail(a), Tail(b))
    ELSE IsSubsequence(a, Tail(b))

\* The item lines of the file of a date, in the order of the file.
ItemSeq(fs, date) == SelectSeq(fs[date], IsItem)

Delivered ==
    IF call.answer # "ok" THEN {}
    ELSE {d \in {"message", "gitee", "tencent"} :
            \/ d = "message" /\ call.message
            \/ d = "gitee" /\ call.gitee = "ok"
            \/ d = "tencent" /\ call.tencent = "ok"}

\* C28: get_and_send_app_access_token returns True exactly when at least
\* one delivery has succeeded; in particular it returns False when the
\* token was obtained, no distributor is configured and the message to the
\* group has failed.
C28_TrueOnlyWhenDelivered ==
    (call.op = "token" /\ call.done) => (call.result <=> Delivered # {})

\* The lines of a parsed file that are rendered items, and those that are
\* no line the archive writes.
WellFormedLines(lines) == {k \in 1..Len(lines) : lines[k].kind = "item"}

UnparsableIn(lines) == {k \in 1..Len(lines) : lines[k].kind = "raw"}

\* C25: a file with exactly one unparsable line among N rendered item
\* lines is parsed into exactly N items, and exactly one warning is logged
\* on the way.
C25_OneWarningPerBadLine ==
    (call.op = "parse" /\ call.done /\ Cardinality(UnparsableIn(call.lines)) = 1)
        => /\ Len(call.items) = Cardinality(WellFormedLines(call.lines))
           /\ call.logged = 1

\* C29: the line rendered for an item that has a url is parsed back into
\* the item's time of day and exactly the item's content.
C29_RoundTrip ==
    (call.op = "line" /\ call.done /\ call.t.url # <<>>)
        => /\ call.parsed # None
           /\ call.parsed[1].time = TimeChars(call.t.time)
           /\ call.parsed[1].content = call.t.content

\* C30: when fix_json_file has returned, the target holds its original
\* content or the backup does, and the target is never written before the
\* backup.
C30_OriginalKept ==
    (call.op = "fix" /\ call.done)
        => /\ call.target = call.original \/ call.backup = call.original
           /\ \A k \in 1..Len(call.writes) :
                call.writes[k] = "target" => \E j \in 1..(k - 1) : call.writes[j] = "backup"

\* The scheduling of fetch_telegrams: an HTTP request ends (by an answer, an
\* error or REQUEST_TIMEOUT) and a sleep ends.
Fairness ==
    /\ WF_vars(FetchAttempt)
    /\ WF_vars(FetchSleep)

FairSpec == Spec /\ Fairness

====
